---------------------------- MODULE Spec2Model ----------------------------
(***************************************************************************)
(* lightDB-sql-adapter: a document / queue / key-value facade over a       *)
(* relational engine.                                                      *)
(*                                                                         *)
(* Two state machines share this module.                                   *)
(*                                                                         *)
(*  PoolSpec, DirectSpec                                                   *)
(*              the execution engine: callers, the task transport and the  *)
(*              message handler of an execution context, in the two forms  *)
(*              the repository holds:                                      *)
(*                "pool"    SQLAdapter over a worker pool (sqlAdapter.js), *)
(*                "direct"  SQLWorkerAdapter over one sqlWorker            *)
(*                          (sqlWorkerAdapter.js / sqlWorker.js).          *)
(*  StoreSpec   the statements of the operations and their effect on the   *)
(*              database (collections, records, filters), in the two forms *)
(*              the repository holds: the worker tasks of SQLAdapter over  *)
(*              PostgreSQLStrategy, and PostgreSQLDb.                      *)
(***************************************************************************)
EXTENDS Integers, Sequences, FiniteSets, TLC

VARIABLES
    \* ---- execution engine ----
    variant,        \* "pool" | "script" | "direct" | "off" (the engine is not part of the run)
    callState,      \* [Calls -> "idle" | "waiting" | "resolved" | "rejected"]
    callGot,        \* [Calls -> 0 | the call whose task produced the response it received]
    taskQueue,      \* tasks the pool holds for want of a free context
    workerTask,     \* [Workers -> 0 | the call the pool gave to that context]
    listeners,      \* once('message') listeners registered on the direct worker
    inbox,          \* [Workers -> messages posted to the context, not yet handled]
    outbox,         \* [Workers -> responses posted by the context, not yet delivered]
    pool,           \* [Workers -> 0 (null) | connection handle] the context's module variable
    pc,             \* [Calls -> position of the handler activation serving the call]
    handledBy,      \* [Calls -> 0 | context that received the call's message]
    collectionsTable,   \* the registry table "collections" exists
    keyValueTable,      \* the table "KeyValueTable" exists
    connections,    \* [Workers -> number of connection+strategy pairs the context created]
    bootstraps,     \* [Workers -> number of times the context started schema bootstrap]
    bootstrapped,   \* [Workers -> a schema bootstrap of the context completed without error]
    received,       \* [Workers -> calls in the order the context received them]
    answered,       \* [Workers -> calls in the order the context answered them]
    queryLog,       \* queries of tasks executed, with the bootstrap state they ran in
    context,        \* [Workers -> "running" | "crashed" | "terminated"] the context's thread
    closeCalled,    \* 0 | -1 (SQLAdapter.close returned) | -2 (SQLAdapter.close threw)
                    \* | the call carrying the task 'close' of SQLWorkerAdapter.close
    ended,          \* [Workers -> number of the context's connections that were ended]
    delivery,       \* [Calls -> how the Facade method handed the call's outcome to its caller],
                    \* <<>> in a run that does not follow the Facade methods
    txn,            \* [Clients -> the caller's executeQuery / executeTransaction activation],
                    \* <<>> in a run without such callers
    registryCall    \* [Clients -> the caller's ConnectionRegistry.createConnection / testConnection],
                    \* <<>> in a run without such callers

VARIABLES
    \* ---- store ----
    adapter,        \* "SQLAdapter" (worker tasks over PostgreSQLStrategy) | "PostgreSQLDb" | "off"
    existing,       \* names of the record tables that exist in the database
    rows,           \* [Names -> set of rows [pk, data, ts]] content of each record table
    registry,       \* rows [name, indices] of the table "collections"
    now,            \* Date.now()
    inflight,       \* [Clients -> PostgreSQLDb.insertRecord call between two of its statements]
    last            \* the operation (or statement of one) that produced this state, and its outcome

storeVars == <<adapter, existing, rows, registry, now, inflight, last>>

\* what the helpers that talk to the driver hold
ioVars == <<txn, registryCall>>

lifecycleVars == <<context, closeCalled, ended, delivery, ioVars>>

engineVars == <<variant, callState, callGot, taskQueue, workerTask, listeners,
                inbox, outbox, pool, pc, handledBy, collectionsTable, keyValueTable,
                connections, bootstraps, bootstrapped, received, answered, queryLog,
                lifecycleVars>>

\* engineVars without keyValueTable
engineVarsButKeyValueTable ==
    <<variant, callState, callGot, taskQueue, workerTask, listeners, inbox, outbox, pool, pc,
      handledBy, collectionsTable, connections, bootstraps, bootstrapped, received, answered,
      queryLog, lifecycleVars>>

vars == <<engineVars, storeVars>>

-----------------------------------------------------------------------------
(* Bounds *)
MaxCalls == 3
NumWorkers == 2

Calls == 1..MaxCalls
Workers == 1..NumWorkers

TaskNames == {"getCollections", "readKey", "nonexistentMethod", "createCollection"}
\* the name the createCollection calls of the engine's runs are given: 'invalid.table'
InvalidTable == <<"t", ".", "t">>

MaxNow == 2         \* the clock runs from 1 to MaxNow
Clients == {1, 2}   \* callers of PostgreSQLDb that may have an insertRecord under way

\* Identifiers are sequences of characters. "t" stands for any character of
\* [A-Za-z0-9_]; "." is a character outside that class.
SafeChars == {"t", "_"}
Names == {<<"t">>, <<"t", ".", "t">>}
\* this.READ_WRITE_KEY_TABLE = "KeyValueTable": a name of one piece, whose
\* characters are all of the class [A-Za-z0-9_]
READ_WRITE_KEY_TABLE == <<"KeyValueTable">>
\* A primary key is a string: the sequence of its pieces.
PKs == {<<"k1">>, <<"k2">>}
NoPk == <<>>        \* an operation without a pk argument

\* Field names of documents, in the order JSON.stringify writes them.
\* The second document defines a __timestamp field of its own.
FieldOrder == <<"score", "value", "__timestamp">>
Docs == {[score |-> 10], [score |-> 20, value |-> 10, __timestamp |-> 7]}

\* PostgreSQLDb is exercised with well-formed names; what an ill-formed name
\* does is examined on the operations of PostgreSQLStrategy.
WellFormedNames == {<<"t">>}

\* Arguments of the calls.
IndexLists == {<<>>, <<"score">>}
NoMax == 0          \* max = null / undefined
FilterCalls ==
    {[conditions |-> <<>>, sort |-> "asc", max |-> NoMax],
     [conditions |-> << <<"score", ">=", "20">> >>, sort |-> "asc", max |-> NoMax],
     [conditions |-> << <<"score", ">=", "10">> >>, sort |-> "asc", max |-> NoMax],
     [conditions |-> << <<"score", ">=", "10">>, <<"value", "<", "20">> >>,
      sort |-> "desc", max |-> NoMax],
     [conditions |-> <<>>, sort |-> "desc", max |-> 1],
     [conditions |-> << <<"score", "<>", "30">> >>, sort |-> "asc", max |-> NoMax],
     [conditions |-> << <<"score", "20">> >>, sort |-> "asc", max |-> NoMax]}

-----------------------------------------------------------------------------
(* ============================== STORE ================================== *)

\* /^[a-zA-Z0-9_]+$/.test(tableName)
IsSafeIdentifier(n) ==
    Len(n) > 0 /\ \A i \in 1..Len(n) : n[i] \in SafeChars \cup {"KeyValueTable"}

EmptyDoc == [f \in {} |-> 0]

\* JSON.stringify(record): the text, as the sequence of its "field": value members
JSONStringify(d) ==
    LET present(f) == f \in DOMAIN d
        fs == SelectSeq(FieldOrder, present)
    IN  [i \in 1..Len(fs) |-> <<fs[i], d[fs[i]]>>]

\* the object a jsonb / JSON text denotes
JSONParse(t) ==
    [f \in {t[i][1] : i \in DOMAIN t} |-> t[CHOOSE i \in DOMAIN t : t[i][1] = f][2]]

\* {...data, pk: pk, __timestamp: ts}
Merge(d, pk, ts) ==
    [f \in DOMAIN d \cup {"pk", "__timestamp"} |->
        IF f = "pk" THEN pk ELSE IF f = "__timestamp" THEN ts ELSE d[f]]

\* {...data, pk}
WithPk(d, pk) == [f \in DOMAIN d \cup {"pk"} |-> IF f = "pk" THEN pk ELSE d[f]]

Row(pk, data, ts) == [pk |-> pk, data |-> data, ts |-> ts]

RowsWithPk(R, pk) == {r \in R : r.pk = pk}

SeqRange(s) == {s[i] : i \in DOMAIN s}

\* What an operation left behind for its caller.
\*   done          the call has called back (FALSE between the statements of an
\*                 operation whose statements interleave with other calls)
\*   at            the statement the outcome comes from
\*   interpolated  identifiers placed into the text of the statements the call sent
\*   found/record  a single-document result (found = FALSE: null)
\*   list          a list result
\*   arg/unique    the payload given to addInQueue and its ensureUniqueness flag
Outcome(op, n, pk, ok, error) ==
    [op |-> op, name |-> n, pk |-> pk, done |-> TRUE, ok |-> ok, error |-> error,
     at |-> "", interpolated |-> {}, found |-> FALSE, record |-> EmptyDoc,
     list |-> <<>>, conds |-> <<>>, sort |-> "", max |-> 0, inText |-> {}, count |-> 0,
     arg |-> EmptyDoc, unique |-> FALSE]

Idle == [pc |-> "idle", name |-> <<>>, pk |-> NoPk, op |-> "", record |-> EmptyDoc,
         unique |-> FALSE]

\* The store while only the engine runs.
StoreOff ==
    /\ adapter = "off"
    /\ existing = {}
    /\ rows = [n \in Names |-> {}]
    /\ registry = {}
    /\ now = 1
    /\ inflight = [cl \in Clients |-> Idle]
    /\ last = Outcome("none", <<>>, NoPk, TRUE, "")

\* The database as one value: the tables of records that exist (the key-value
\* table, which has their columns, among them), their rows, the registry rows.
Database ==
    [existing |-> existing \cup (IF keyValueTable THEN {READ_WRITE_KEY_TABLE} ELSE {}),
     rows |-> rows, registry |-> registry]

-----------------------------------------------------------------------------
(* The database's answer to the statements the code sends *)

\* INSERT INTO "<t>" (pk, data, __timestamp) VALUES ($1, $2, $3) RETURNING *
\* on a table declared with  pk TEXT PRIMARY KEY  (unique violation: 23505).
SqlInsertNoPrimaryKey(R, pk, data, ts) ==
    [code |-> "ok", rows |-> R \cup {Row(pk, data, ts)}, returning |-> <<Row(pk, data, ts)>>]

SqlInsert(R, pk, data, ts) ==
    IF RowsWithPk(R, pk) # {}
    THEN [code |-> "23505", rows |-> R, returning |-> <<>>]
    ELSE [code |-> "ok", rows |-> R \cup {Row(pk, data, ts)},
          returning |-> <<Row(pk, data, ts)>>]

\* UPDATE "<t>" SET data = $2, __timestamp = $3 WHERE pk = $1 RETURNING ...
SqlUpdate(R, pk, data, ts) ==
    [rows |-> (R \ RowsWithPk(R, pk)) \cup {Row(pk, data, ts) : r \in RowsWithPk(R, pk)},
     returning |-> {Row(pk, data, ts) : r \in RowsWithPk(R, pk)}]

\* DELETE FROM "<t>" WHERE pk = $1 RETURNING ...
SqlDelete(R, pk) == [rows |-> R \ RowsWithPk(R, pk), returning |-> RowsWithPk(R, pk)]

\* INSERT INTO collections (name, indices) VALUES ($1, $2)
\*   ON CONFLICT (name) DO UPDATE SET indices = $2
\* against collections (name VARCHAR(255) PRIMARY KEY, indices JSONB).
SqlUpsertWithoutConflictTarget(R, name, indices) ==
    R \cup {[name |-> name, indices |-> indices]}

SqlUpsert(R, name, indices) ==
    {r \in R : r.name # name} \cup {[name |-> name, indices |-> indices]}

\* The sequences in which a SELECT without ORDER BY may return a set of rows.
RECURSIVE Enumerations(_)
Enumerations(S) ==
    IF S = {} THEN {<<>>}
    ELSE UNION {{<<x>> \o rest : rest \in Enumerations(S \ {x})} : x \in S}

\* One statement of createCollection / removeCollection applied to the database.
ApplyStatement(db, q) ==
    CASE q.kind = "CREATE TABLE IF NOT EXISTS" ->
            [db EXCEPT !.existing = @ \cup {q.identifiers[1]}]
      [] q.kind = "DROP TABLE IF EXISTS" ->
            [db EXCEPT !.existing = @ \ {q.identifiers[1]},
                       !.rows[q.identifiers[1]] = {}]
      [] q.kind = "INSERT INTO collections ON CONFLICT (name) DO UPDATE" ->
            [db EXCEPT !.registry = SqlUpsert(@, q.params[1], q.params[2])]
      [] q.kind = "DELETE FROM collections" ->
            [db EXCEPT !.registry = {r \in @ : r.name # q.params[1]}]
      [] q.kind = "CREATE INDEX IF NOT EXISTS" -> db

\* Identifiers in the text of the first k statements of a list.
Interpolated(queries, k) == UNION {SeqRange(queries[i].identifiers) : i \in 1..k}

\* Sort key of a row: the __timestamp column or a body field cast to numeric
\* (NULL when the body has no such field; NULL sorts as larger than any value).
OrderKey(r, field) ==
    IF field = "__timestamp" THEN [null |-> FALSE, v |-> r.ts]
    ELSE IF field \in DOMAIN JSONParse(r.data)
         THEN [null |-> FALSE, v |-> JSONParse(r.data)[field]]
         ELSE [null |-> TRUE, v |-> 0]

KeyLeq(a, b) == IF a.null THEN b.null ELSE b.null \/ a.v <= b.v

ComesFirst(a, b, field, direction) ==
    IF direction = "DESC" THEN KeyLeq(OrderKey(b, field), OrderKey(a, field))
    ELSE KeyLeq(OrderKey(a, field), OrderKey(b, field))

\* The sequences ORDER BY may return for a set of rows: rows with equal keys
\* come in any order.
RECURSIVE Orderings(_, _, _)
Orderings(R, field, direction) ==
    IF R = {} THEN {<<>>}
    ELSE UNION {{<<r>> \o s : s \in Orderings(R \ {r}, field, direction)} :
                r \in {x \in R : \A y \in R : ComesFirst(x, y, field, direction)}}

\* The number a numeral of SQL text denotes.
Numeral(s) == CASE s = "10" -> 10 [] s = "20" -> 20 [] s = "30" -> 30

Compare(a, operator, b) ==
    CASE operator = ">=" -> a >= b
      [] operator = "<"  -> a < b
      [] operator = "<>" -> a # b

\* (data->>'field')::numeric <operator> <value>  on one row; NULL is not true.
PredicateHolds(r, p) ==
    /\ p.field \in DOMAIN JSONParse(r.data)
    /\ Compare(JSONParse(r.data)[p.field], p.operator, Numeral(p.value))

\* SELECT ... FROM "<table>" [WHERE p1 AND p2 ...] ORDER BY ... [LIMIT n]:
\* the row sequences the database may return.
SqlSelect(R, query) ==
    LET matching == {r \in R : \A i \in DOMAIN query.where : PredicateHolds(r, query.where[i])}
        limited(s) == IF query.limit > 0 /\ query.limit < Len(s)
                      THEN SubSeq(s, 1, query.limit) ELSE s
    IN  {limited(s) : s \in Orderings(matching, query.orderBy, query.direction)}

-----------------------------------------------------------------------------
(* PostgreSQLStrategy: the statements it builds and the results it parses *)

\* A JavaScript value that is either an Array or a string. A condition such as
\* "score >= 20" is the sequence of its whitespace-separated parts; a WHERE text
\* is the sequence of the predicates it joins with AND.
JsArray(items) == [type |-> "array", items |-> items]
JsString(pieces) == [type |-> "string", items |-> pieces]
Thrown == [type |-> "throw", items |-> <<>>]

createCollection(tableName, indicesList) ==
    IF ~IsSafeIdentifier(tableName)
    THEN [throw |-> TRUE, queries |-> <<>>]
    ELSE [throw |-> FALSE,
          queries |-> <<[kind |-> "CREATE TABLE IF NOT EXISTS",
                         identifiers |-> <<tableName>>, params |-> <<>>],
                        [kind |-> "INSERT INTO collections ON CONFLICT (name) DO UPDATE",
                         identifiers |-> <<>>, params |-> <<tableName, indicesList>>]>>]

removeCollection(tableName) ==
    <<[kind |-> "DROP TABLE IF EXISTS", identifiers |-> <<tableName>>, params |-> <<>>],
      [kind |-> "DELETE FROM collections", identifiers |-> <<>>, params |-> <<tableName>>]>>

convertConditionsToLokiQuery(conditions) ==
    IF conditions.type # "array" \/ Len(conditions.items) = 0 THEN JsString(<<>>)
    ELSE IF \E i \in DOMAIN conditions.items : Len(conditions.items[i]) # 3 THEN Thrown
    ELSE JsString([i \in DOMAIN conditions.items |->
                     [field |-> conditions.items[i][1],
                      operator |-> conditions.items[i][2],
                      value |-> conditions.items[i][3]]])

\* The caller's values that stand in the text of a statement rather than in its
\* parameter list: the value of `(data->>'f')::numeric op ${value}` for each
\* predicate written into the text, and n of `LIMIT ${max}`.
ValuesInText(predicates, limit) ==
    {<<"value", predicates[i].value>> : i \in DOMAIN predicates}
        \cup (IF limit # NoMax THEN {<<"limit", limit>>} ELSE {})


filter(tableName, conditions, sort, max) ==
    LET whereClause == IF Len(conditions.items) > 0
                       THEN convertConditionsToLokiQuery(conditions)
                       ELSE JsString(<<>>)
    IN  [throw |-> whereClause.type = "throw",
         table |-> tableName,
         where |-> whereClause.items,
         orderBy |-> sort.field,
         direction |-> sort.direction,
         limit |-> max]

parseInsertResult(resultRows, pk, record) ==
    Merge(JSONParse(resultRows[1].data), resultRows[1].pk, resultRows[1].ts)

parseGetResult(resultRows) ==
    IF Len(resultRows) = 0 THEN [found |-> FALSE, record |-> EmptyDoc]
    ELSE [found |-> TRUE, record |-> JSONParse(resultRows[1].data)]

\* (a count of the distinct timestamps instead of the rows)
parseCountResultOfTimestamps(R) == Cardinality({r.ts : r \in R})

\* parseInt(result.rows[0].count) of SELECT COUNT(*)
parseCountResult(R) == Cardinality(R)

\* SELECT pk, data, __timestamp FROM "<queue>" ORDER BY __timestamp <DIR> [LIMIT n]
listQueue(queueName, sortAfterInsertTime, onlyFirstN) ==
    [table |-> queueName,
     where |-> <<>>,
     orderBy |-> "__timestamp",
     direction |-> IF sortAfterInsertTime = "desc" THEN "DESC" ELSE "ASC",
     limit |-> onlyFirstN]

\* result.rows.map(row => row.name || '').filter(Boolean)
parseCollectionsResult(resultRows) == [i \in DOMAIN resultRows |-> resultRows[i].name]

\* null | {...data, pk, __timestamp}
parseUpdateResult(resultRows) ==
    IF Len(resultRows) = 0 THEN [found |-> FALSE, record |-> EmptyDoc]
    ELSE [found |-> TRUE,
          record |-> Merge(JSONParse(resultRows[1].data), resultRows[1].pk, resultRows[1].ts)]

\* null | {pk, data, __timestamp}: the body stays nested under "data"
parseDeleteResult(resultRows) ==
    IF Len(resultRows) = 0 THEN [found |-> FALSE, record |-> EmptyDoc]
    ELSE [found |-> TRUE,
          record |-> [pk |-> resultRows[1].pk,
                      data |-> JSONParse(resultRows[1].data),
                      __timestamp |-> resultRows[1].ts]]

parseFilterResults(resultRows) ==
    [i \in DOMAIN resultRows |->
        Merge(JSONParse(resultRows[i].data), resultRows[i].pk, resultRows[i].ts)]

\* The loop of executeTransaction over its statements; the statement numbered
\* failAt (if any) is the one the database rejects.
RECURSIVE RunQueries(_, _, _, _)
RunQueries(work, queries, i, failAt) ==
    IF i > Len(queries) THEN [ok |-> TRUE, db |-> work, sent |-> Len(queries)]
    ELSE IF i = failAt THEN [ok |-> FALSE, db |-> work, sent |-> i]
    ELSE RunQueries(ApplyStatement(work, queries[i]), queries, i + 1, failAt)

\* BEGIN; the statements; COMMIT -- or ROLLBACK when one fails.
executeTransaction(db, queries, failAt) ==
    LET run == RunQueries(db, queries, 1, failAt)
    IN  IF run.ok THEN run ELSE [run EXCEPT !.db = db]

-----------------------------------------------------------------------------
(* Worker tasks of SQLAdapter (sqlAdapter.js), each one whole *)

SetDatabase(db) ==
    /\ existing' = db.existing \ {READ_WRITE_KEY_TABLE}
    /\ keyValueTable' = (READ_WRITE_KEY_TABLE \in db.existing)
    /\ rows' = db.rows
    /\ registry' = db.registry

\* Date.now(): the clock read by a call; it never runs backwards.
DateNow(timestamp) ==
    /\ timestamp \in {now, now + 1}
    /\ timestamp <= MaxNow
    /\ now' = timestamp

\* failAt: 0 no statement fails, 1..2 that statement of the transaction fails,
\* 3 the verifying SELECT after COMMIT fails.
Task_createCollection(tableName, indicesList, failAt) ==
    /\ adapter = "SQLAdapter"
    /\ LET createQueries == createCollection(tableName, indicesList)
           tx == executeTransaction(Database, createQueries.queries, failAt)
           collections == {r.name : r \in tx.db.registry}
           out(ok, error, at, k) ==
               [Outcome("createCollection", tableName, NoPk, ok, error) EXCEPT
                    !.at = at, !.interpolated = Interpolated(createQueries.queries, k)]
       IN  IF createQueries.throw
           THEN /\ failAt = 0
                /\ last' = out(FALSE, "InvalidTableName", "", 0)
                /\ UNCHANGED <<existing, rows, registry, keyValueTable>>
           ELSE /\ failAt \in 0..3
                /\ SetDatabase(tx.db)
                /\ last' = IF ~tx.ok THEN out(FALSE, "DatabaseError", "transaction", tx.sent)
                           ELSE IF failAt = 3 THEN out(FALSE, "DatabaseError", "verify", 2)
                           ELSE IF tableName \notin collections
                                THEN out(FALSE, "FailedToCreateCollection", "verify", 2)
                                ELSE out(TRUE, "", "", 2)
    /\ UNCHANGED <<adapter, now, inflight>>
    /\ UNCHANGED engineVarsButKeyValueTable

Task_removeCollection(tableName, failAt) ==
    /\ adapter = "SQLAdapter"
    /\ failAt \in 0..2
    /\ LET removeQueries == removeCollection(tableName)
           tx == executeTransaction(Database, removeQueries, failAt)
       IN  /\ SetDatabase(tx.db)
           /\ last' = [Outcome("removeCollection", tableName, NoPk, tx.ok,
                               IF tx.ok THEN "" ELSE "DatabaseError") EXCEPT
                          !.at = IF tx.ok THEN "" ELSE "transaction",
                          !.interpolated = Interpolated(removeQueries, tx.sent)]
    /\ UNCHANGED <<adapter, now, inflight>>
    /\ UNCHANGED engineVarsButKeyValueTable

Task_insertRecord(tableName, pk, record, timestamp) ==
    /\ adapter = "SQLAdapter"
    /\ DateNow(timestamp)
    /\ LET result == SqlInsert(rows[tableName], pk, JSONStringify(record), timestamp)
           out(ok, error) ==
               [Outcome("insertRecord", tableName, pk, ok, error) EXCEPT
                    !.at = "INSERT", !.interpolated = {tableName}]
       IN  IF tableName \notin existing
           THEN /\ last' = out(FALSE, "UndefinedTable")
                /\ UNCHANGED rows
           ELSE IF result.code = "23505"
           THEN /\ last' = out(FALSE, "DuplicateKey")
                /\ UNCHANGED rows
           ELSE /\ rows' = [rows EXCEPT ![tableName] = result.rows]
                /\ last' = [out(TRUE, "") EXCEPT
                               !.found = TRUE,
                               !.record = parseInsertResult(result.returning, pk, record)]
    /\ UNCHANGED <<adapter, existing, registry, inflight>>
    /\ UNCHANGED engineVars

\* SELECT name FROM collections WHERE name IS NOT NULL AND name != ''
Task_getCollections ==
    /\ adapter = "SQLAdapter"
    /\ \E resultRows \in Enumerations(registry) :
            last' = [Outcome("getCollections", <<>>, NoPk, TRUE, "") EXCEPT
                        !.at = "SELECT", !.list = parseCollectionsResult(resultRows)]
    /\ UNCHANGED <<adapter, existing, rows, registry, now, inflight>>
    /\ UNCHANGED engineVars

Task_updateRecord(tableName, pk, record, updateTimestamp) ==
    /\ adapter = "SQLAdapter"
    /\ DateNow(updateTimestamp)
    /\ LET result == SqlUpdate(rows[tableName], pk, JSONStringify(record), updateTimestamp)
           out(ok, error) ==
               [Outcome("updateRecord", tableName, pk, ok, error) EXCEPT
                    !.at = "UPDATE", !.interpolated = {tableName}]
       IN  IF tableName \notin existing
           THEN /\ last' = out(FALSE, "UndefinedTable")
                /\ UNCHANGED rows
           ELSE /\ rows' = [rows EXCEPT ![tableName] = result.rows]
                /\ \E returned \in Orderings(result.returning, "__timestamp", "ASC") :
                        last' = [out(TRUE, "") EXCEPT
                                    !.found = parseUpdateResult(returned).found,
                                    !.record = parseUpdateResult(returned).record]
    /\ UNCHANGED <<adapter, existing, registry, inflight>>
    /\ UNCHANGED engineVars

Task_deleteRecord(tableName, pk) ==
    /\ adapter = "SQLAdapter"
    /\ LET result == SqlDelete(rows[tableName], pk)
           out(ok, error) ==
               [Outcome("deleteRecord", tableName, pk, ok, error) EXCEPT
                    !.at = "DELETE", !.interpolated = {tableName}]
       IN  IF tableName \notin existing
           THEN /\ last' = out(FALSE, "UndefinedTable")
                /\ UNCHANGED rows
           ELSE /\ rows' = [rows EXCEPT ![tableName] = result.rows]
                /\ \E returned \in Orderings(result.returning, "__timestamp", "ASC") :
                        last' = [out(TRUE, "") EXCEPT
                                    !.found = parseDeleteResult(returned).found,
                                    !.record = parseDeleteResult(returned).record]
    /\ UNCHANGED <<adapter, existing, registry, now, inflight>>
    /\ UNCHANGED engineVars

Task_getRecord(tableName, pk) ==
    /\ adapter = "SQLAdapter"
    /\ LET out(ok, error) ==
               [Outcome("getRecord", tableName, pk, ok, error) EXCEPT
                    !.at = "SELECT", !.interpolated = {tableName}]
       IN  IF tableName \notin existing
           THEN last' = out(FALSE, "UndefinedTable")
           ELSE \E result \in Orderings(RowsWithPk(rows[tableName], pk), "__timestamp", "ASC") :
                    last' = [out(TRUE, "") EXCEPT
                                !.found = parseGetResult(result).found,
                                !.record = parseGetResult(result).record]
    /\ UNCHANGED <<adapter, existing, rows, registry, now, inflight>>
    /\ UNCHANGED engineVars

Task_filter(tableName, conditions, sort, max) ==
    /\ adapter = "SQLAdapter"
    /\ LET filterConditions == IF Len(conditions) > 0
                               THEN convertConditionsToLokiQuery(JsArray(conditions))
                               ELSE JsString(<<>>)
           sortConfig == [field |-> "__timestamp",
                          direction |-> IF sort = "desc" THEN "DESC" ELSE "ASC"]
           filterQuery == filter(tableName, filterConditions, sortConfig, max)
           out(ok, error, sent) ==
               [Outcome("filter", tableName, NoPk, ok, error) EXCEPT
                    !.at = "SELECT", !.interpolated = sent,
                    !.conds = conditions, !.sort = sort, !.max = max,
                    !.inText = ValuesInText(filterConditions.items, NoMax)
                                 \cup ValuesInText(filterQuery.where, filterQuery.limit)]
       IN  IF filterConditions.type = "throw" \/ filterQuery.throw
           THEN last' = out(FALSE, "InvalidCondition", {})
           ELSE IF tableName \notin existing
           THEN last' = out(FALSE, "UndefinedTable", {tableName})
           ELSE \E result \in SqlSelect(rows[tableName], filterQuery) :
                    last' = [out(TRUE, "", {tableName}) EXCEPT
                                !.list = parseFilterResults(result)]
    /\ UNCHANGED <<adapter, existing, rows, registry, now, inflight>>
    /\ UNCHANGED engineVars

\* SQLAdapter.queueSize is count(queueName): the worker task 'count'.
Task_queueSize(queueName) ==
    /\ adapter = "SQLAdapter"
    /\ LET out(ok, error) ==
               [Outcome("queueSize", queueName, NoPk, ok, error) EXCEPT
                    !.at = "SELECT", !.interpolated = {queueName}]
       IN  IF queueName \notin existing
           THEN last' = out(FALSE, "UndefinedTable")
           ELSE last' = [out(TRUE, "") EXCEPT !.count = parseCountResult(rows[queueName])]
    /\ UNCHANGED <<adapter, existing, rows, registry, now, inflight>>
    /\ UNCHANGED engineVars

Task_listQueue(queueName, sortAfterInsertTime, onlyFirstN) ==
    /\ adapter = "SQLAdapter"
    /\ LET listQuery == listQueue(queueName, sortAfterInsertTime, onlyFirstN)
           out(ok, error) ==
               [Outcome("listQueue", queueName, NoPk, ok, error) EXCEPT
                    !.at = "SELECT", !.interpolated = {queueName},
                    !.sort = sortAfterInsertTime, !.max = onlyFirstN,
                    !.inText = ValuesInText(<<>>, onlyFirstN)]
       IN  IF queueName \notin existing
           THEN last' = out(FALSE, "UndefinedTable")
           ELSE \E result \in SqlSelect(rows[queueName], listQuery) :
                    last' = [out(TRUE, "") EXCEPT
                                !.list = [i \in DOMAIN result |->
                                            parseFilterResults(result)[i].pk]]
    /\ UNCHANGED <<adapter, existing, rows, registry, now, inflight>>
    /\ UNCHANGED engineVars

-----------------------------------------------------------------------------
(* PostgreSQLDb (the adapter that talks to the pool itself) *)

\* failAt: 0 no statement fails; 1 the CREATE TABLE of ensureCollectionTable,
\* which runs on a client of its own, outside the transaction; 2 the INSERT into
\* collections; 3.. a CREATE INDEX. Index objects are not part of the state.
PostgreSQLDb_createCollection(tableName, indicesList, failAt) ==
    /\ adapter = "PostgreSQLDb"
    /\ failAt \in 0..(2 + Len(indicesList))
    /\ LET ensure == [kind |-> "CREATE TABLE IF NOT EXISTS",
                      identifiers |-> <<tableName>>, params |-> <<>>]
           onClient == <<[kind |-> "INSERT INTO collections ON CONFLICT (name) DO UPDATE",
                          identifiers |-> <<>>, params |-> <<tableName, indicesList>>]>>
                       \o [i \in 1..Len(indicesList) |->
                             [kind |-> "CREATE INDEX IF NOT EXISTS",
                              identifiers |-> <<tableName>>, params |-> <<>>]]
           ensured == IF failAt = 1 THEN Database ELSE ApplyStatement(Database, ensure)
           tx == IF failAt = 1 THEN [ok |-> FALSE, db |-> Database, sent |-> 0]
                 ELSE executeTransaction(ensured, onClient,
                                         IF failAt = 0 THEN 0 ELSE failAt - 1)
       IN  /\ SetDatabase(tx.db)
           /\ last' = [Outcome("createCollection", tableName, NoPk, tx.ok,
                               IF tx.ok THEN "" ELSE "DatabaseError") EXCEPT
                          !.at = IF tx.ok THEN "" ELSE "transaction",
                          !.interpolated = {tableName}]
    /\ UNCHANGED <<adapter, now, inflight>>
    /\ UNCHANGED engineVarsButKeyValueTable

\* Two pool.query calls in a row, each committed on its own.
PostgreSQLDb_removeCollection(collectionName, failAt) ==
    /\ adapter = "PostgreSQLDb"
    /\ failAt \in 0..2
    /\ LET statements == removeCollection(collectionName)
           run == RunQueries(Database, statements, 1, failAt)
       IN  /\ SetDatabase(run.db)
           /\ last' = [Outcome("removeCollection", collectionName, NoPk, run.ok,
                               IF run.ok THEN "" ELSE "DatabaseError") EXCEPT
                          !.at = IF run.ok THEN "" ELSE "statement",
                          !.interpolated = Interpolated(statements, run.sent)]
    /\ UNCHANGED <<adapter, now, inflight>>
    /\ UNCHANGED engineVarsButKeyValueTable

\* insertRecord is three statements with other calls running in between:
\* ensureCollectionTable, SELECT pk, INSERT. The record argument is not looked at
\* before the INSERT, so it is chosen there.
PostgreSQLDb_insertRecord_ensure(cl, tableName, pk) ==
    /\ adapter = "PostgreSQLDb"
    /\ inflight[cl] = Idle
    /\ existing' = existing \cup {tableName}
    /\ inflight' = [inflight EXCEPT ![cl] = [Idle EXCEPT !.pc = "select", !.name = tableName,
                                                       !.pk = pk, !.op = "insertRecord"]]
    /\ last' = [Outcome("insertRecord", tableName, pk, TRUE, "") EXCEPT
                   !.done = FALSE, !.at = "CREATE", !.interpolated = {tableName}]
    /\ UNCHANGED <<adapter, rows, registry, now>>
    /\ UNCHANGED engineVars

PostgreSQLDb_insertRecord_select(cl) ==
    /\ adapter = "PostgreSQLDb"
    /\ inflight[cl].pc = "select"
    /\ LET tableName == inflight[cl].name
           pk == inflight[cl].pk
           out(done, ok, error) ==
               [Outcome(inflight[cl].op, tableName, pk, ok, error) EXCEPT
                    !.done = done, !.at = "SELECT", !.interpolated = {tableName},
                    !.arg = inflight[cl].record, !.unique = inflight[cl].unique]
       IN  IF tableName \notin existing
           THEN /\ last' = out(TRUE, FALSE, "UndefinedTable")
                /\ inflight' = [inflight EXCEPT ![cl] = Idle]
           ELSE IF RowsWithPk(rows[tableName], pk) # {}
           THEN /\ last' = out(TRUE, FALSE, "DuplicateKey")
                /\ inflight' = [inflight EXCEPT ![cl] = Idle]
           ELSE /\ last' = out(FALSE, TRUE, "")
                /\ inflight' = [inflight EXCEPT ![cl].pc = "insert"]
    /\ UNCHANGED <<adapter, existing, rows, registry, now>>
    /\ UNCHANGED engineVars

PostgreSQLDb_insertRecord_insert(cl, record, timestamp) ==
    /\ adapter = "PostgreSQLDb"
    /\ inflight[cl].pc = "insert"
    /\ inflight[cl].op = "addInQueue" => record = inflight[cl].record
    /\ DateNow(timestamp)
    /\ LET tableName == inflight[cl].name
           pk == inflight[cl].pk
           result == SqlInsert(rows[tableName], pk, JSONStringify(record), timestamp)
           out(ok, error) ==
               [Outcome(inflight[cl].op, tableName, pk, ok, error) EXCEPT
                    !.at = "INSERT", !.interpolated = {tableName},
                    !.arg = inflight[cl].record, !.unique = inflight[cl].unique]
       IN  IF tableName \notin existing
           THEN /\ last' = out(FALSE, "UndefinedTable")
                /\ UNCHANGED rows
           ELSE IF result.code = "23505"
           THEN /\ last' = out(FALSE, "DuplicateKey")
                /\ UNCHANGED rows
           ELSE /\ rows' = [rows EXCEPT ![tableName] = result.rows]
                /\ last' = [out(TRUE, "") EXCEPT
                               !.found = TRUE,
                               !.record = WithPk(JSONParse(result.returning[1].data), pk)]
    /\ inflight' = [inflight EXCEPT ![cl] = Idle]
    /\ UNCHANGED <<adapter, existing, registry>>
    /\ UNCHANGED engineVars

\* SELECT name FROM collections
PostgreSQLDb_getCollections ==
    /\ adapter = "PostgreSQLDb"
    /\ \E resultRows \in Enumerations(registry) :
            last' = [Outcome("getCollections", <<>>, NoPk, TRUE, "") EXCEPT
                        !.at = "SELECT",
                        !.list = [i \in DOMAIN resultRows |-> resultRows[i].name]]
    /\ UNCHANGED <<adapter, existing, rows, registry, now, inflight>>
    /\ UNCHANGED engineVars

\* The callback gets {...record, pk, __timestamp: timestamp} whether or not a
\* row was updated (the documents of the model carry no __fallbackToInsert).
PostgreSQLDb_updateRecord(tableName, pk, record, timestamp) ==
    /\ adapter = "PostgreSQLDb"
    /\ DateNow(timestamp)
    /\ LET result == SqlUpdate(rows[tableName], pk, JSONStringify(record), timestamp)
           out(ok, error) ==
               [Outcome("updateRecord", tableName, pk, ok, error) EXCEPT
                    !.at = "UPDATE", !.interpolated = {tableName}]
       IN  IF tableName \notin existing
           THEN /\ last' = out(FALSE, "UndefinedTable")
                /\ UNCHANGED rows
           ELSE /\ rows' = [rows EXCEPT ![tableName] = result.rows]
                /\ last' = [out(TRUE, "") EXCEPT
                               !.found = TRUE,
                               !.record = Merge(record, pk, timestamp)]
    /\ UNCHANGED <<adapter, existing, registry, inflight>>
    /\ UNCHANGED engineVars

\* {pk} when no row was deleted, {...data, pk} otherwise
PostgreSQLDb_deleteRecord(tableName, pk) ==
    /\ adapter = "PostgreSQLDb"
    /\ LET result == SqlDelete(rows[tableName], pk)
           out(ok, error) ==
               [Outcome("deleteRecord", tableName, pk, ok, error) EXCEPT
                    !.at = "DELETE", !.interpolated = {tableName}]
       IN  IF tableName \notin existing
           THEN /\ last' = out(FALSE, "UndefinedTable")
                /\ UNCHANGED rows
           ELSE /\ rows' = [rows EXCEPT ![tableName] = result.rows]
                /\ \E returned \in Orderings(result.returning, "__timestamp", "ASC") :
                        last' = [out(TRUE, "") EXCEPT
                                    !.found = TRUE,
                                    !.record = IF Len(returned) = 0
                                               THEN WithPk(EmptyDoc, pk)
                                               ELSE WithPk(JSONParse(returned[1].data), pk)]
    /\ UNCHANGED <<adapter, existing, registry, now, inflight>>
    /\ UNCHANGED engineVars

PostgreSQLDb_getRecord(tableName, pk) ==
    /\ adapter = "PostgreSQLDb"
    /\ LET out(ok, error) ==
               [Outcome("getRecord", tableName, pk, ok, error) EXCEPT
                    !.at = "SELECT", !.interpolated = {tableName}]
       IN  IF tableName \notin existing
           THEN last' = out(FALSE, "UndefinedTable")
           ELSE \E result \in Orderings(RowsWithPk(rows[tableName], pk), "__timestamp", "ASC") :
                    last' = IF Len(result) = 0 THEN out(TRUE, "")
                            ELSE [out(TRUE, "") EXCEPT
                                     !.found = TRUE,
                                     !.record = Merge(JSONParse(result[1].data), pk, result[1].ts)]
    /\ UNCHANGED <<adapter, existing, rows, registry, now, inflight>>
    /\ UNCHANGED engineVars

PostgreSQLDb_filter(tableName, filterConditions, sort, max) ==
    /\ adapter = "PostgreSQLDb"
    /\ LET query == [table |-> tableName,
                     where |-> [i \in DOMAIN filterConditions |->
                                  [field |-> filterConditions[i][1],
                                   operator |-> filterConditions[i][2],
                                   value |-> filterConditions[i][3]]],
                     orderBy |-> IF Len(filterConditions) > 0
                                 THEN filterConditions[1][1] ELSE "__timestamp",
                     direction |-> IF sort = "desc" THEN "DESC" ELSE "ASC",
                     limit |-> max]
           out(ok, error) ==
               [Outcome("filter", tableName, NoPk, ok, error) EXCEPT
                    !.at = "SELECT", !.interpolated = {tableName},
                    !.conds = filterConditions, !.sort = sort, !.max = max,
                    \* the values of the conditions are bound as $1, $2, ...
                    !.inText = ValuesInText(<<>>, max)]
       IN  IF \E i \in DOMAIN filterConditions : Len(filterConditions[i]) < 3
           THEN \* value is undefined: value.replace(...) throws a TypeError
                last' = [out(FALSE, "TypeError") EXCEPT !.interpolated = {}]
           ELSE IF tableName \notin existing
           THEN last' = out(FALSE, "UndefinedTable")
           ELSE \E result \in SqlSelect(rows[tableName], query) :
                    last' = [out(TRUE, "") EXCEPT
                                !.list = [i \in DOMAIN result |->
                                            Merge(JSONParse(result[i].data),
                                                  result[i].pk, result[i].ts)]]
    /\ UNCHANGED <<adapter, existing, rows, registry, now, inflight>>
    /\ UNCHANGED engineVars

\* queueSize(queueName, callback) { this.count(queueName, callback) }
PostgreSQLDb_queueSize(queueName) ==
    /\ adapter = "PostgreSQLDb"
    /\ LET out(ok, error) ==
               [Outcome("queueSize", queueName, NoPk, ok, error) EXCEPT
                    !.at = "SELECT", !.interpolated = {queueName}]
       IN  IF queueName \notin existing
           THEN last' = out(FALSE, "UndefinedTable")
           ELSE last' = [out(TRUE, "") EXCEPT !.count = Cardinality(rows[queueName])]
    /\ UNCHANGED <<adapter, existing, rows, registry, now, inflight>>
    /\ UNCHANGED engineVars

\* err.code === '42P01' (the table does not exist) is answered with []
PostgreSQLDb_listQueue(queueName, sortAfterInsertTime, onlyFirstN) ==
    /\ adapter = "PostgreSQLDb"
    /\ LET query == [table |-> queueName,
                     where |-> <<>>,
                     orderBy |-> "__timestamp",
                     direction |-> IF sortAfterInsertTime = "desc" THEN "DESC" ELSE "ASC",
                     limit |-> onlyFirstN]
           out(ok, error) ==
               [Outcome("listQueue", queueName, NoPk, ok, error) EXCEPT
                    !.at = "SELECT", !.interpolated = {queueName},
                    !.sort = sortAfterInsertTime, !.max = onlyFirstN,
                    !.inText = ValuesInText(<<>>, onlyFirstN)]
       IN  IF queueName \notin existing
           THEN last' = out(TRUE, "")
           ELSE \E result \in SqlSelect(rows[queueName], query) :
                    last' = [out(TRUE, "") EXCEPT
                                !.list = [i \in DOMAIN result |-> result[i].pk]]
    /\ UNCHANGED <<adapter, existing, rows, registry, now, inflight>>
    /\ UNCHANGED engineVars

-----------------------------------------------------------------------------
(* Queues *)

\* crypto.createHash('sha256').update(text).digest('hex'): the digest is a
\* function of the text alone, and distinct texts have distinct digests.
sha256(text) == <<"sha256", text>>

\* crypto.randomBytes(5), encoded
Randoms == {"r1", "r2"}

\* The key of a queue entry: hash, or `${hash}_${Date.now()}_${random}`.
\* A string is the sequence of its pieces.
QueuePk(object, ensureUniqueness, timestamp, random) ==
    LET hash == sha256(JSONStringify(object))
    IN  IF ensureUniqueness THEN <<hash, "_", timestamp, "_", random>> ELSE <<hash>>

\* The keys callers of the record operations use on a queue.
QueuePKs == {QueuePk(d, FALSE, 0, "") : d \in Docs}

\* strategy.addInQueue(args[0], args[1], args[2]) against the signature
\* addInQueue(connection, queueName, object, ensureUniqueness): the queue name
\* arrives as the connection, so executeQuery's connection.query(...) is a call
\* on a string and throws before any statement is sent.
Task_addInQueue(queueName, object, ensureUniqueness) ==
    /\ adapter = "SQLAdapter"
    /\ last' = [Outcome("addInQueue", queueName, NoPk, FALSE, "TypeError") EXCEPT
                   !.arg = object, !.unique = ensureUniqueness]
    /\ UNCHANGED <<adapter, existing, rows, registry, now, inflight>>
    /\ UNCHANGED engineVars

\* (a parseQueueResult that answers null whatever the rows are)
parseQueueResultAlwaysNull(resultRows) == [found |-> FALSE, record |-> EmptyDoc]

\* parseQueueResult: the stored data of the first row, or null
parseQueueResult(resultRows) ==
    IF Len(resultRows) = 0 THEN [found |-> FALSE, record |-> EmptyDoc]
    ELSE [found |-> TRUE, record |-> JSONParse(resultRows[1].data)]

Task_getObjectFromQueue(queueName, hash) ==
    /\ adapter = "SQLAdapter"
    /\ LET out(ok, error) ==
               [Outcome("getObjectFromQueue", queueName, hash, ok, error) EXCEPT
                    !.at = "SELECT", !.interpolated = {queueName}]
       IN  IF queueName \notin existing
           THEN last' = out(FALSE, "UndefinedTable")
           ELSE \E result \in Orderings(RowsWithPk(rows[queueName], hash), "__timestamp", "ASC") :
                    last' = [out(TRUE, "") EXCEPT
                                !.found = parseQueueResult(result).found,
                                !.record = parseQueueResult(result).record]
    /\ UNCHANGED <<adapter, existing, rows, registry, now, inflight>>
    /\ UNCHANGED engineVars

Task_deleteObjectFromQueue(queueName, hash) ==
    /\ adapter = "SQLAdapter"
    /\ LET result == SqlDelete(rows[queueName], hash)
           out(ok, error) ==
               [Outcome("deleteObjectFromQueue", queueName, hash, ok, error) EXCEPT
                    !.at = "DELETE", !.interpolated = {queueName}]
       IN  IF queueName \notin existing
           THEN /\ last' = out(FALSE, "UndefinedTable")
                /\ UNCHANGED rows
           ELSE /\ rows' = [rows EXCEPT ![queueName] = result.rows]
                /\ \E returned \in Orderings(result.returning, "__timestamp", "ASC") :
                        last' = [out(TRUE, "") EXCEPT
                                    !.found = parseQueueResult(returned).found,
                                    !.record = parseQueueResult(returned).record]
    /\ UNCHANGED <<adapter, existing, registry, now, inflight>>
    /\ UNCHANGED engineVars

\* sqlWorker: CREATE TABLE IF NOT EXISTS, then the plain INSERT. The clock is
\* read for the key and again for the row.
SqlWorker_addInQueue(queueName, object, ensureUniqueness, random, keyTime, timestamp) ==
    /\ adapter = "sqlWorker"
    /\ keyTime \in {now, now + 1}
    /\ timestamp \in {keyTime, keyTime + 1}
    /\ timestamp <= MaxNow
    /\ now' = timestamp
    /\ LET pk == QueuePk(object, ensureUniqueness, keyTime, random)
           result == SqlInsert(rows[queueName], pk, JSONStringify(object), timestamp)
           out(ok, error, at) ==
               [Outcome("addInQueue", queueName, pk, ok, error) EXCEPT
                    !.at = at, !.interpolated = {queueName},
                    !.arg = object, !.unique = ensureUniqueness]
       IN  /\ existing' = existing \cup {queueName}
           /\ IF result.code = "23505"
              THEN /\ last' = out(FALSE, "DuplicateKey", "INSERT")
                   /\ UNCHANGED rows
              ELSE /\ rows' = [rows EXCEPT ![queueName] = result.rows]
                   /\ last' = out(TRUE, "", "INSERT")
    /\ UNCHANGED <<adapter, registry, inflight>>
    /\ UNCHANGED engineVars

\* PostgreSQLDb.addInQueue derives the key and hands over to insertRecord, whose
\* first statement is ensureCollectionTable.
PostgreSQLDb_addInQueue(cl, queueName, object, ensureUniqueness, random, keyTime) ==
    /\ adapter = "PostgreSQLDb"
    /\ inflight[cl] = Idle
    /\ IF ensureUniqueness THEN DateNow(keyTime) ELSE keyTime = now /\ UNCHANGED now
    /\ LET pk == QueuePk(object, ensureUniqueness, keyTime, random)
       IN  /\ inflight' = [inflight EXCEPT ![cl] =
                              [pc |-> "select", name |-> queueName, pk |-> pk,
                               op |-> "addInQueue", record |-> object,
                               unique |-> ensureUniqueness]]
           /\ last' = [Outcome("addInQueue", queueName, pk, TRUE, "") EXCEPT
                          !.done = FALSE, !.at = "CREATE", !.interpolated = {queueName},
                          !.arg = object, !.unique = ensureUniqueness]
    /\ existing' = existing \cup {queueName}
    /\ UNCHANGED <<adapter, rows, registry>>
    /\ UNCHANGED engineVars

\* this.getRecord(queueName, hash, callback)
PostgreSQLDb_getObjectFromQueue(queueName, hash) == PostgreSQLDb_getRecord(queueName, hash)

\* this.deleteRecord(queueName, hash, callback)
PostgreSQLDb_deleteObjectFromQueue(queueName, hash) == PostgreSQLDb_deleteRecord(queueName, hash)

-----------------------------------------------------------------------------
(* Key-value entries *)

\* JavaScript values given to writeKey. t is the kind of value, v what tells two
\* values of a kind apart: the text of a string, the bytes of a buffer, the
\* members of an object, the digits of a number.
Values ==
    {[t |-> "string", v |-> "testValue"], [t |-> "string", v |-> "test"],
     [t |-> "buffer", v |-> "74 65 73 74"], [t |-> "object", v |-> "foo: 'bar'"],
     [t |-> "number", v |-> "10"], [t |-> "boolean", v |-> "true"],
     [t |-> "null", v |-> ""], [t |-> "undefined", v |-> ""], [t |-> "bigint", v |-> "10"]}

StringValue(text) == [t |-> "string", v |-> text]
Undefined == [t |-> "undefined", v |-> ""]
NoEnvelope == [type |-> "", value |-> Undefined]

\* typeof value
TypeOf(value) == IF value.t \in {"buffer", "object", "null"} THEN "object" ELSE value.t

\* Buffer.isBuffer(value)
IsBuffer(value) == value.t = "buffer"

\* value.toString() of a buffer: its bytes decoded as UTF-8
BufferToString(value) == IF value.v = "74 65 73 74" THEN "test" ELSE ""

\* JSON.stringify(value) of an object
ObjectToJson(value) == IF value.v = "foo: 'bar'" THEN "{\"foo\":\"bar\"}" ELSE "{}"

\* (an envelope that tags every value with typeof, buffers included)
valueObjectByTypeofAlone(value) == [type |-> TypeOf(value), value |-> value]

\* The envelope writeKey wraps a value in.
valueObject(value) ==
    IF IsBuffer(value)
    THEN [type |-> "buffer", value |-> StringValue(BufferToString(value))]
    ELSE IF value.t # "null" /\ TypeOf(value) = "object"
    THEN [type |-> "object", value |-> StringValue(ObjectToJson(value))]
    ELSE [type |-> TypeOf(value), value |-> value]

\* JSON.stringify(envelope) throws on a BigInt and leaves a member whose value
\* is undefined out of the text; the jsonb read back is the object that text denotes.
JsonThrows(envelope) == envelope.value.t = "bigint"
AsJsonb(envelope) ==
    [type |-> envelope.type,
     value |-> IF envelope.value.t = "undefined" THEN Undefined ELSE envelope.value]

\* INSERT INTO "KeyValueTable" ... ON CONFLICT (pk) DO UPDATE SET data, __timestamp
\* RETURNING data
SqlWriteKey(R, pk, data, ts) ==
    [rows |-> {r \in R : r.pk # pk} \cup {Row(pk, data, ts)},
     returning |-> <<Row(pk, data, ts)>>]

\* parseWriteKeyResult / parseReadKeyResult: rows[0].data, or null
parseReadKeyResult(resultRows) ==
    IF Len(resultRows) = 0 THEN [found |-> FALSE, record |-> NoEnvelope]
    ELSE [found |-> TRUE, record |-> resultRows[1].data]

KeyValueOutcome(op, key, value, ok, error, at) ==
    [Outcome(op, READ_WRITE_KEY_TABLE, key, ok, error) EXCEPT
        !.at = at, !.arg = value, !.record = NoEnvelope]

\* SQLAdapter.writeKey builds the envelope and sends it to the worker, whose task
\* ensures the table, serializes the envelope and writes it.
Task_writeKey(key, value, timestamp) ==
    /\ adapter = "SQLAdapter"
    /\ DateNow(timestamp)
    /\ keyValueTable' = TRUE
    /\ LET envelope == valueObject(value)
           result == SqlWriteKey(rows[READ_WRITE_KEY_TABLE], key, AsJsonb(envelope), timestamp)
       IN  IF JsonThrows(envelope)
           THEN /\ last' = KeyValueOutcome("writeKey", key, value, FALSE, "TypeError", "")
                /\ UNCHANGED rows
           ELSE /\ rows' = [rows EXCEPT ![READ_WRITE_KEY_TABLE] = result.rows]
                /\ last' = [KeyValueOutcome("writeKey", key, value, TRUE, "", "INSERT") EXCEPT
                               !.found = parseReadKeyResult(result.returning).found,
                               !.record = parseReadKeyResult(result.returning).record]
    /\ UNCHANGED <<adapter, existing, registry, inflight>>
    /\ UNCHANGED engineVarsButKeyValueTable

\* The worker's readKey sends the SELECT with nothing before it.
Task_readKey(key) ==
    /\ adapter = "SQLAdapter"
    /\ IF ~keyValueTable
       THEN last' = KeyValueOutcome("readKey", key, Undefined, FALSE, "UndefinedTable", "SELECT")
       ELSE \E result \in Orderings(RowsWithPk(rows[READ_WRITE_KEY_TABLE], key),
                                    "__timestamp", "ASC") :
                last' = [KeyValueOutcome("readKey", key, Undefined, TRUE, "", "SELECT") EXCEPT
                            !.found = parseReadKeyResult(result).found,
                            !.record = parseReadKeyResult(result).record]
    /\ UNCHANGED <<adapter, existing, rows, registry, now, inflight>>
    /\ UNCHANGED engineVars

\* PostgreSQLDb.writeKey: the envelope is a query parameter, which the driver
\* serializes with JSON.stringify.
PostgreSQLDb_writeKey(key, value, timestamp) ==
    /\ adapter = "PostgreSQLDb"
    /\ DateNow(timestamp)
    /\ LET envelope == valueObject(value)
           result == SqlWriteKey(rows[READ_WRITE_KEY_TABLE], key, AsJsonb(envelope), timestamp)
       IN  IF JsonThrows(envelope)
           THEN /\ last' = KeyValueOutcome("writeKey", key, value, FALSE, "TypeError", "")
                /\ UNCHANGED rows
           ELSE IF ~keyValueTable
           THEN /\ last' = KeyValueOutcome("writeKey", key, value, FALSE, "UndefinedTable",
                                           "INSERT")
                /\ UNCHANGED rows
           ELSE /\ rows' = [rows EXCEPT ![READ_WRITE_KEY_TABLE] = result.rows]
                /\ last' = [KeyValueOutcome("writeKey", key, value, TRUE, "", "INSERT") EXCEPT
                               !.found = TRUE, !.record = result.returning[1].data]
    /\ UNCHANGED <<adapter, existing, registry, inflight>>
    /\ UNCHANGED engineVars

PostgreSQLDb_readKey(key) ==
    /\ adapter = "PostgreSQLDb"
    /\ IF ~keyValueTable
       THEN last' = KeyValueOutcome("readKey", key, Undefined, FALSE, "UndefinedTable", "SELECT")
       ELSE \E result \in Orderings(RowsWithPk(rows[READ_WRITE_KEY_TABLE], key),
                                    "__timestamp", "ASC") :
                last' = IF Len(result) = 0
                        THEN KeyValueOutcome("readKey", key, Undefined, TRUE, "", "SELECT")
                        ELSE [KeyValueOutcome("readKey", key, Undefined, TRUE, "", "SELECT")
                                  EXCEPT !.found = TRUE, !.record = result[1].data]
    /\ UNCHANGED <<adapter, existing, rows, registry, now, inflight>>
    /\ UNCHANGED engineVars

-----------------------------------------------------------------------------
(* ======================= EXECUTION ENGINE ============================== *)

\* The worker pool boots sqlAdapter.js ("pool") or workerScript.js ("script").
Pooled == variant \in {"pool", "script"}

\* The members of the error a context posts with a failure:
\* sqlAdapter.js:    error: {message, stack, code, constraint, detail, isTestError, type}
\* workerScript.js:  error: {message, code, type}
\* sqlWorker.js:     error: error.message || String(error), stack: error.stack
ErrorDescriptor ==
    CASE variant = "pool" ->
            {"message", "stack", "code", "constraint", "detail", "isTestError", "type"}
      [] variant = "script" -> {"message", "code", "type"}
      [] OTHER -> {"message", "stack"}

Response(c, ok) ==
    [task |-> c, success |-> ok, error |-> IF ok THEN "" ELSE "Error",
     descriptor |-> IF ok THEN {} ELSE ErrorDescriptor]

\* The continuation of a Facade method has not run.
\* No activation: the caller is not inside one of the helpers.
NoTx == [method |-> "", at |-> "idle", left |-> 0, failure |-> "none", acquired |-> 0,
         released |-> 0]

\* No call of the registry: let connection = null, nothing opened.
NoRegistryCall == [method |-> "", type |-> "", customConfig |-> FALSE, at |-> "idle",
                   connection |-> "null", opened |-> 0, ends |-> 0, result |-> ""]

NoDelivery == [form |-> "", invocations |-> <<>>, awaited |-> "", unhandled |-> FALSE]

\* The engine's variables before any call. schemaReady: the run starts after the
\* schema bootstrap (the store's runs), which in PostgreSQLDb creates both tables
\* and in the worker of SQLAdapter the registry table only.
EngineState(v, schemaReady) ==
    /\ variant = v
    /\ callState = [c \in Calls |-> "idle"]
    /\ callGot = [c \in Calls |-> 0]
    /\ taskQueue = <<>>
    /\ workerTask = [w \in Workers |-> 0]
    /\ listeners = <<>>
    /\ inbox = [w \in Workers |-> <<>>]
    /\ outbox = [w \in Workers |-> <<>>]
    /\ pool = [w \in Workers |-> 0]
    /\ pc = [c \in Calls |-> "none"]
    /\ handledBy = [c \in Calls |-> 0]
    /\ collectionsTable = schemaReady
    /\ keyValueTable = (schemaReady /\ adapter = "PostgreSQLDb")
    /\ connections = [w \in Workers |-> 0]
    /\ bootstraps = [w \in Workers |-> 0]
    /\ bootstrapped = [w \in Workers |-> FALSE]
    /\ received = [w \in Workers |-> <<>>]
    /\ answered = [w \in Workers |-> <<>>]
    /\ queryLog = {}
    /\ context = [w \in Workers |-> "running"]
    /\ closeCalled = 0
    /\ ended = [w \in Workers |-> 0]

\* A fresh database and a freshly constructed adapter.
EngineInit(v) ==
    /\ StoreOff
    /\ EngineState(v, FALSE)
    \* no Facade method is followed to its caller, and no caller is inside a
    \* helper of the strategy or of the registry
    /\ delivery = <<>>
    /\ txn = <<>>
    /\ registryCall = <<>>

\* parentPort.postMessage({success: true, result})
PostSuccess(w, c) ==
    /\ outbox' = [outbox EXCEPT ![w] = Append(@, Response(c, TRUE))]
    /\ answered' = [answered EXCEPT ![w] = Append(@, c)]

\* a handler whose catch block posts nothing
PostFailureSwallowed(w, c) ==
    /\ outbox' = outbox
    /\ answered' = answered

\* catch (error) { parentPort.postMessage({success: false, error: ...}) }
PostFailure(w, c) ==
    /\ outbox' = [outbox EXCEPT ![w] = Append(@, Response(c, FALSE))]
    /\ answered' = [answered EXCEPT ![w] = Append(@, c)]

\* the response to a task whose strategy call threw `Invalid table name: ...`
PostInvalidTableName(w, c) ==
    /\ outbox' = [outbox EXCEPT ![w] =
                     Append(@, [Response(c, FALSE) EXCEPT !.error = "InvalidTableName"])]
    /\ answered' = [answered EXCEPT ![w] = Append(@, c)]

\* The task's name is read only by the handler's switch: Execute draws it.
\* SQLAdapter._executeTask: workerPool.addTask({taskName, args}, callback);
\* SQLWorkerAdapter.executeWorkerTask: worker.postMessage(...) then
\* worker.once('message', ...), in one turn of the caller's thread.
Submit(c) ==
    /\ callState[c] = "idle"
    /\ \A d \in Calls : d < c => callState[d] # "idle"   \* calls are numbered as submitted
    /\ callState' = [callState EXCEPT ![c] = "waiting"]
    /\ IF Pooled
          THEN /\ taskQueue' = Append(taskQueue, c)
               /\ UNCHANGED <<inbox, listeners>>
          ELSE /\ inbox' = [inbox EXCEPT ![1] = Append(@, c)]
               /\ listeners' = Append(listeners, c)
               /\ UNCHANGED taskQueue
    /\ UNCHANGED <<variant, lifecycleVars, callGot, workerTask, outbox, pool, pc, handledBy,
                   collectionsTable, keyValueTable, connections, bootstraps,
                   bootstrapped, received, answered, queryLog>>
    /\ UNCHANGED storeVars

\* The pool hands the oldest queued task to a context that is not serving one.
Dispatch(w) ==
    /\ Pooled
    /\ context[w] = "running"
    /\ workerTask[w] = 0
    /\ taskQueue # <<>>
    /\ workerTask' = [workerTask EXCEPT ![w] = Head(taskQueue)]
    /\ inbox' = [inbox EXCEPT ![w] = Append(@, Head(taskQueue))]
    /\ taskQueue' = Tail(taskQueue)
    /\ UNCHANGED <<variant, lifecycleVars, callState, callGot, listeners, outbox, pool, pc,
                   handledBy, collectionsTable, keyValueTable, connections, bootstraps,
                   bootstrapped, received, answered, queryLog>>
    /\ UNCHANGED storeVars

\* parentPort.on('message', async (message) => { ... if (!pool) ...
\* The handler is an async function: it runs to its first await, and the
\* next message event may start another activation before it resumes.
Receive(w) ==
    /\ context[w] = "running"
    /\ inbox[w] # <<>>
    /\ LET c == Head(inbox[w]) IN
         /\ inbox' = [inbox EXCEPT ![w] = Tail(@)]
         /\ handledBy' = [handledBy EXCEPT ![c] = w]
         /\ received' = [received EXCEPT ![w] = Append(@, c)]
         /\ pc' = [pc EXCEPT ![c] = IF pool[w] = 0 THEN "createConnection" ELSE "execute"]
    /\ UNCHANGED <<variant, lifecycleVars, callState, callGot, taskQueue, workerTask, listeners,
                   outbox, pool, collectionsTable, keyValueTable, connections, bootstraps,
                   bootstrapped, answered, queryLog>>
    /\ UNCHANGED storeVars

\* pool = await ConnectionRegistry.createConnection(type)        (sqlAdapter.js)
\* connection = await ConnectionRegistry.createConnection(type);
\* strategy = StrategyFactory.createStrategy(type)               (sqlWorker.js)
CreateConnection(c, ok) ==
    /\ pc[c] = "createConnection"
    /\ LET w == handledBy[c] IN
         IF ok
            THEN /\ connections' = [connections EXCEPT ![w] = @ + 1]
                 /\ pool' = [pool EXCEPT ![w] = connections[w] + 1]
                 /\ bootstraps' = [bootstraps EXCEPT ![w] = @ + 1]
                 /\ pc' = [pc EXCEPT ![c] = "bootstrap1"]
                 /\ UNCHANGED <<outbox, answered>>
            ELSE /\ PostFailure(w, c)
                 /\ pc' = [pc EXCEPT ![c] = "done"]
                 /\ UNCHANGED <<connections, pool, bootstraps>>
    /\ UNCHANGED <<variant, lifecycleVars, callState, callGot, taskQueue, workerTask, listeners,
                   inbox, handledBy, collectionsTable, keyValueTable, bootstrapped,
                   received, queryLog>>
    /\ UNCHANGED storeVars

\* Outcomes of a native call that returns: success, a unique-constraint error
\* raised by a concurrent CREATE TABLE IF NOT EXISTS, any other error.
NativeOutcomes == {"ok", "dup", "err"}

Active(c) == pc[c] \notin {"none", "done"}

\* sqlAdapter.js: await strategy.ensureCollectionsTable(pool)
\* sqlWorker.js initializeSchema, first statement:
\*   await strategy.executeQuery(connection, strategy.createCollectionsTable())
Bootstrap1(c, outcome) ==
    /\ pc[c] = "bootstrap1"
    /\ outcome = "dup" =>
          /\ variant = "direct"
          /\ \E d \in Calls \ {c} : pc[d] = "bootstrap1"
    /\ LET w == handledBy[c] IN
         CASE outcome = "ok" ->
                /\ collectionsTable' = TRUE
                /\ IF Pooled
                      THEN /\ bootstrapped' = [bootstrapped EXCEPT ![w] = TRUE]
                           /\ pc' = [pc EXCEPT ![c] = "execute"]
                      ELSE /\ pc' = [pc EXCEPT ![c] = "bootstrap2"]
                           /\ UNCHANGED bootstrapped
                /\ UNCHANGED <<outbox, answered>>
           [] outcome = "dup" ->
                \* catch: the duplicate error is ignored and initializeSchema returns
                /\ bootstrapped' = [bootstrapped EXCEPT ![w] = TRUE]
                /\ pc' = [pc EXCEPT ![c] = "execute"]
                /\ UNCHANGED <<collectionsTable, outbox, answered>>
           [] OTHER ->
                /\ PostFailure(w, c)
                /\ pc' = [pc EXCEPT ![c] = "done"]
                /\ UNCHANGED <<collectionsTable, bootstrapped>>
    /\ UNCHANGED <<variant, lifecycleVars, callState, callGot, taskQueue, workerTask, listeners,
                   inbox, pool, handledBy, keyValueTable, connections, bootstraps,
                   received, queryLog>>
    /\ UNCHANGED storeVars

\* sqlWorker.js initializeSchema, second statement:
\*   await strategy.executeQuery(connection, strategy.createKeyValueTable("KeyValueTable"))
Bootstrap2(c, outcome) ==
    /\ pc[c] = "bootstrap2"
    /\ outcome = "dup" => \E d \in Calls \ {c} : pc[d] = "bootstrap2"
    /\ LET w == handledBy[c] IN
         CASE outcome = "ok" ->
                /\ keyValueTable' = TRUE
                /\ bootstrapped' = [bootstrapped EXCEPT ![w] = TRUE]
                /\ pc' = [pc EXCEPT ![c] = "execute"]
                /\ UNCHANGED <<outbox, answered>>
           [] outcome = "dup" ->
                /\ bootstrapped' = [bootstrapped EXCEPT ![w] = TRUE]
                /\ pc' = [pc EXCEPT ![c] = "execute"]
                /\ UNCHANGED <<keyValueTable, outbox, answered>>
           [] OTHER ->
                /\ PostFailure(w, c)
                /\ pc' = [pc EXCEPT ![c] = "done"]
                /\ UNCHANGED <<keyValueTable, bootstrapped>>
    /\ UNCHANGED <<variant, lifecycleVars, callState, callGot, taskQueue, workerTask, listeners,
                   inbox, pool, handledBy, collectionsTable, connections, bootstraps,
                   received, queryLog>>
    /\ UNCHANGED storeVars

\* The table a task's query reads; the query fails when it does not exist.
TaskTableExists(name) ==
    CASE name = "getCollections" -> collectionsTable
      [] name = "readKey" -> keyValueTable
      [] OTHER -> FALSE

KnownTask(name) == name \in {"getCollections", "readKey"}

\* switch (taskName) { ... default: throw new Error(`Unknown task`) } and the
\* response that follows; executeMethod(method, params) in sqlWorker.js.
\* case 'createCollection' of sqlAdapter.js: ensureCollectionsTable(pool), then
\* strategy.createCollection(args[0], args[1]), which throws on an unsafe name;
\* sqlWorker.js calls strategy.createCollection with no statement before it.
Execute(c, name) ==
    /\ pc[c] = "execute"
    /\ c # closeCalled        \* the task 'close' is ExecuteClose
    /\ LET w == handledBy[c] IN
         /\ IF KnownTask(name)
               THEN queryLog' = queryLog \cup
                       {[bootstrapped |-> bootstrapped[w],
                         collections |-> collectionsTable, keyValue |-> keyValueTable]}
               ELSE queryLog' = queryLog
         /\ IF name = "createCollection"
               THEN /\ collectionsTable' = (collectionsTable \/ variant = "pool")
                    /\ IF createCollection(InvalidTable, <<>>).throw
                          THEN PostInvalidTableName(w, c)
                          ELSE PostSuccess(w, c)
               ELSE /\ UNCHANGED collectionsTable
                    /\ IF KnownTask(name) /\ TaskTableExists(name)
                          THEN PostSuccess(w, c)
                          ELSE PostFailure(w, c)
    /\ pc' = [pc EXCEPT ![c] = "done"]
    /\ UNCHANGED <<variant, lifecycleVars, callState, callGot, taskQueue, workerTask, listeners,
                   inbox, pool, handledBy, keyValueTable, connections,
                   bootstraps, bootstrapped, received>>
    /\ UNCHANGED storeVars

Settled(r) == IF r.success THEN "resolved" ELSE "rejected"

\* The main thread receives the oldest response of a context.
\* pool:   the pool calls the callback of the task it gave to that context.
\* direct: every listener registered with once('message') fires on this one event.
Deliver(w) ==
    /\ outbox[w] # <<>>
    /\ LET r == Head(outbox[w]) IN
         IF Pooled
            THEN /\ callState' = [callState EXCEPT ![workerTask[w]] = Settled(r)]
                 /\ callGot' = [callGot EXCEPT ![workerTask[w]] = r.task]
                 /\ workerTask' = [workerTask EXCEPT ![w] = 0]
                 /\ UNCHANGED listeners
            ELSE LET L == {listeners[i] : i \in DOMAIN listeners} IN
                 /\ callState' = [c \in Calls |-> IF c \in L THEN Settled(r) ELSE callState[c]]
                 /\ callGot' = [c \in Calls |-> IF c \in L THEN r.task ELSE callGot[c]]
                 /\ listeners' = <<>>
                 /\ UNCHANGED workerTask
    /\ outbox' = [outbox EXCEPT ![w] = Tail(@)]
    /\ UNCHANGED <<variant, lifecycleVars, taskQueue, inbox, pool, pc, handledBy,
                   collectionsTable, keyValueTable, connections, bootstraps, bootstrapped,
                   received, answered, queryLog>>
    /\ UNCHANGED storeVars

\* SQLAdapter over the worker pool, with the handler of sqlAdapter.js
PoolInit == EngineInit("pool")

PoolNext ==
    \/ \E c \in Calls : Submit(c)
    \/ \E w \in Workers : Dispatch(w)
    \/ \E w \in Workers : Receive(w)
    \/ \E c \in Calls, ok \in BOOLEAN : CreateConnection(c, ok)
    \/ \E c \in Calls, o \in NativeOutcomes : Bootstrap1(c, o)
    \/ \E c \in Calls, name \in TaskNames : Execute(c, name)
    \/ \E w \in Workers : Deliver(w)

PoolSpec == PoolInit /\ [][PoolNext]_vars

\* SQLWorkerAdapter over one sqlWorker
DirectInit == EngineInit("direct")

DirectNext ==
    \/ \E c \in Calls : Submit(c)
    \/ \E w \in Workers : Receive(w)
    \/ \E c \in Calls, ok \in BOOLEAN : CreateConnection(c, ok)
    \/ \E c \in Calls, o \in NativeOutcomes : Bootstrap1(c, o)
    \/ \E c \in Calls, o \in NativeOutcomes : Bootstrap2(c, o)
    \/ \E c \in Calls, name \in TaskNames : Execute(c, name)
    \/ \E w \in Workers : Deliver(w)

DirectSpec == DirectInit /\ [][DirectNext]_vars

\* Every native call returns and every context and the main thread keep running.
PoolFairness ==
    /\ \A w \in Workers : WF_vars(Dispatch(w))
    /\ \A w \in Workers : WF_vars(Receive(w))
    /\ \A w \in Workers : WF_vars(Deliver(w))
    /\ \A c \in Calls : WF_vars(\E ok \in BOOLEAN : CreateConnection(c, ok))
    /\ \A c \in Calls : WF_vars(\E o \in NativeOutcomes : Bootstrap1(c, o))
    /\ \A c \in Calls : WF_vars(\E name \in TaskNames : Execute(c, name))

PoolFairSpec == PoolSpec /\ PoolFairness

-----------------------------------------------------------------------------
(* Errors outside a handler's try block, and close() *)

\* The thread of each context in W stops: its handler activations never resume
\* and the messages it has not read are dropped.
StopContexts(W, state) ==
    /\ context' = [w \in Workers |-> IF w \in W THEN state ELSE context[w]]
    /\ pc' = [c \in Calls |-> IF Active(c) /\ handledBy[c] \in W THEN state ELSE pc[c]]
    /\ inbox' = [w \in Workers |-> IF w \in W THEN <<>> ELSE inbox[w]]

\* An error raised in the context outside the awaited call of a task: the
\* connection pool created by ConnectionRegistry.createConnection has no
\* 'error' listener, so an error event of an idle client is thrown by the
\* emitter while a task of the context is under way.
\* sqlAdapter.js and sqlWorker.js install no handler for it: the exception is
\* uncaught and ends the context's thread.
\* workerScript.js: process.on("uncaughtException", ...) posts a failure that
\* names no task, and the handler activations go on.
AsyncError(w) ==
    /\ context[w] = "running"
    /\ pool[w] # 0
    /\ \E c \in Calls : handledBy[c] = w /\ pc[c] \in {"bootstrap1", "bootstrap2", "execute"}
    /\ IF variant = "script"
          THEN /\ \A i \in DOMAIN answered[w] : answered[w][i] # 0
               /\ outbox' = [outbox EXCEPT ![w] =
                                Append(@, [Response(0, FALSE) EXCEPT
                                              !.error = "UncaughtException"])]
               /\ answered' = [answered EXCEPT ![w] = Append(@, 0)]
               /\ UNCHANGED <<context, pc, inbox>>
          ELSE /\ StopContexts({w}, "crashed")
               /\ UNCHANGED <<outbox, answered>>
    /\ UNCHANGED <<variant, delivery, ioVars, closeCalled, ended, callState, callGot, taskQueue, workerTask,
                   listeners, pool, handledBy, collectionsTable, keyValueTable, connections,
                   bootstraps, bootstrapped, received, queryLog>>
    /\ UNCHANGED storeVars

\* SQLAdapter.close(): drain(), clear() and terminate() of the worker pool, each
\* called only if the pool has it. hasDrain: the call is taken when drain() has
\* returned, no task queued or with a context. hasTerminate: the contexts'
\* threads are stopped. Nothing in the boot script ends the connection.
\* The three calls are in one try block whose catch rethrows: when drain()
\* throws (failure = "drain"), clear() and terminate() are not called; when
\* terminate() throws (failure = "terminate") the contexts W it had stopped by
\* then are stopped, any set but all of them.
SQLAdapter_close(hasDrain, hasTerminate, failure, W) ==
    /\ Pooled
    /\ closeCalled = 0
    /\ failure = "drain" => hasDrain
    /\ failure = "terminate" => hasTerminate
    /\ (hasDrain /\ failure # "drain") =>
            (taskQueue = <<>> /\ \A w \in Workers : workerTask[w] = 0)
    /\ closeCalled' = IF failure = "none" THEN -1 ELSE -2
    /\ CASE failure = "drain" -> W = {} /\ UNCHANGED <<context, pc, inbox>>
         [] failure = "terminate" -> W # Workers /\ StopContexts(W, "terminated")
         [] OTHER ->
              /\ W = Workers
              /\ IF hasTerminate
                    THEN StopContexts(Workers, "terminated")
                    ELSE UNCHANGED <<context, pc, inbox>>
    /\ UNCHANGED <<variant, delivery, ioVars, ended, callState, callGot, taskQueue, workerTask, listeners,
                   outbox, pool, handledBy, collectionsTable, keyValueTable, connections,
                   bootstraps, bootstrapped, received, answered, queryLog>>
    /\ UNCHANGED storeVars

\* SQLWorkerAdapter.close(), first statement: await this.executeWorkerTask('close')
SQLWorkerAdapter_close(c) ==
    /\ variant = "direct"
    /\ closeCalled = 0
    /\ callState[c] = "idle"
    /\ \A d \in Calls : d < c => callState[d] # "idle"
    /\ closeCalled' = c
    /\ callState' = [callState EXCEPT ![c] = "waiting"]
    /\ inbox' = [inbox EXCEPT ![1] = Append(@, c)]
    /\ listeners' = Append(listeners, c)
    /\ UNCHANGED <<variant, delivery, ioVars, context, ended, callGot, taskQueue, workerTask, outbox, pool, pc,
                   handledBy, collectionsTable, keyValueTable, connections, bootstraps,
                   bootstrapped, received, answered, queryLog>>
    /\ UNCHANGED storeVars

\* sqlWorker.js executeMethod, case 'close':
\*   if (connection) { await strategy.closeConnection(connection);
\*                     connection = null; strategy = null; } return true;
ExecuteClose(c, ok) ==
    /\ pc[c] = "execute"
    /\ c = closeCalled
    /\ LET w == handledBy[c] IN
         IF pool[w] = 0
            THEN /\ ok
                 /\ PostSuccess(w, c)
                 /\ UNCHANGED <<pool, ended>>
            ELSE IF ok
            THEN /\ ended' = [ended EXCEPT ![w] = @ + 1]
                 /\ pool' = [pool EXCEPT ![w] = 0]
                 /\ PostSuccess(w, c)
            ELSE /\ PostFailure(w, c)
                 /\ UNCHANGED <<pool, ended>>
    /\ pc' = [pc EXCEPT ![c] = "done"]
    /\ UNCHANGED <<variant, delivery, ioVars, context, closeCalled, callState, callGot, taskQueue, workerTask,
                   listeners, inbox, handledBy, collectionsTable, keyValueTable, connections,
                   bootstraps, bootstrapped, received, queryLog>>
    /\ UNCHANGED storeVars

\* SQLWorkerAdapter.close(): finally { await this.worker.terminate() }, once the
\* promise of the task 'close' is settled.
WorkerTerminate ==
    /\ variant = "direct"
    /\ closeCalled \in Calls
    /\ callState[closeCalled] \in {"resolved", "rejected"}
    /\ context[1] # "terminated"
    /\ StopContexts({1}, "terminated")
    /\ UNCHANGED <<variant, delivery, ioVars, closeCalled, ended, callState, callGot, taskQueue, workerTask,
                   listeners, outbox, pool, handledBy, collectionsTable, keyValueTable,
                   connections, bootstraps, bootstrapped, received, answered, queryLog>>
    /\ UNCHANGED storeVars

\* An adapter of either kind on a fresh database: SQLAdapter over a pool that
\* boots sqlAdapter.js or workerScript.js, or SQLWorkerAdapter.
LifecycleInit == \E v \in {"pool", "script", "direct"} : EngineInit(v)

LifecycleNext ==
    \/ \E c \in Calls : Submit(c)
    \/ \E w \in Workers : Dispatch(w)
    \/ \E w \in Workers : Receive(w)
    \/ \E c \in Calls, ok \in BOOLEAN : CreateConnection(c, ok)
    \/ \E c \in Calls, o \in NativeOutcomes : Bootstrap1(c, o)
    \/ \E c \in Calls, o \in NativeOutcomes : Bootstrap2(c, o)
    \/ \E c \in Calls, name \in TaskNames : Execute(c, name)
    \/ \E w \in Workers : Deliver(w)
    \/ \E w \in Workers : AsyncError(w)
    \/ \E hasDrain \in BOOLEAN, hasTerminate \in BOOLEAN,
          failure \in {"none", "drain", "terminate"}, W \in SUBSET Workers :
            SQLAdapter_close(hasDrain, hasTerminate, failure, W)
    \/ \E c \in Calls : SQLWorkerAdapter_close(c)
    \/ \E c \in Calls, ok \in BOOLEAN : ExecuteClose(c, ok)
    \/ WorkerTerminate

LifecycleSpec == LifecycleInit /\ [][LifecycleNext]_vars

-----------------------------------------------------------------------------
(* The Facade methods of SQLAdapter: from the settled promise to the caller *)

\* What the caller passed as `callback`: a function that returns, one that
\* throws when it is given a result, one that throws whatever it is given, or
\* nothing (the call is awaited).
Callbacks == {"returns", "throwsOnResult", "throwsAlways", "absent"}

\* this._executeTask(taskName, args)
\*     .then(result => callback(null, result))
\*     .catch(error => callback(error));
\* The catch handler is chained after the then handler: it also receives what
\* the callback threw inside the then handler. Without a callback both handlers
\* throw a TypeError, the chain ends as an unhandled rejection, and the method,
\* which has no return statement, has given its caller undefined.
Facade_settle(c, callback) ==
    /\ variant = "pool"
    /\ callState[c] \in {"resolved", "rejected"}
    /\ delivery[c] = NoDelivery
    /\ LET outcome == IF callState[c] = "resolved" THEN "result" ELSE "error"
           throwsOn(what) ==
               \/ callback = "throwsAlways"
               \/ callback = "throwsOnResult" /\ what = "result"
       IN  delivery' = [delivery EXCEPT ![c] =
               IF callback = "absent"
               THEN [form |-> "awaitable", invocations |-> <<>>, awaited |-> "undefined",
                     unhandled |-> TRUE]
               ELSE IF outcome = "result" /\ throwsOn("result")
               THEN [form |-> "callback", invocations |-> <<"result", "error">>,
                     awaited |-> "", unhandled |-> throwsOn("error")]
               ELSE [form |-> "callback", invocations |-> <<outcome>>, awaited |-> "",
                     unhandled |-> throwsOn(outcome)]]
    /\ UNCHANGED <<variant, ioVars, context, closeCalled, ended, callState, callGot, taskQueue,
                   workerTask, listeners, inbox, outbox, pool, pc, handledBy, collectionsTable,
                   keyValueTable, connections, bootstraps, bootstrapped, received, answered,
                   queryLog>>
    /\ UNCHANGED storeVars

\* SQLAdapter over the worker pool, with the continuations of its Facade methods
FacadeInit ==
    /\ StoreOff
    /\ EngineState("pool", FALSE)
    /\ delivery = [c \in Calls |-> NoDelivery]
    /\ txn = <<>>
    /\ registryCall = <<>>

FacadeNext ==
    \/ \E c \in Calls : Submit(c)
    \/ \E w \in Workers : Dispatch(w)
    \/ \E w \in Workers : Receive(w)
    \/ \E c \in Calls, ok \in BOOLEAN : CreateConnection(c, ok)
    \/ \E c \in Calls, o \in NativeOutcomes : Bootstrap1(c, o)
    \/ \E c \in Calls, name \in TaskNames : Execute(c, name)
    \/ \E w \in Workers : Deliver(w)
    \/ \E c \in Calls, callback \in Callbacks : Facade_settle(c, callback)

FacadeSpec == FacadeInit /\ [][FacadeNext]_vars

-----------------------------------------------------------------------------
(* Clients of the pool: executeQuery, executeTransaction, initializeSchema *)

\* the most statements a transaction is given
MaxStatements == 2

\* executeTransaction is the strategy's (the queries are its argument),
\* initializeSchema is PostgreSQLDb's (two CREATE TABLE statements),
\* executeQuery is the strategy's version that acquires a client, and
\* executeQueryOnPool its version that calls connection.query on the pool.
TxMethods == {"executeTransaction", "initializeSchema", "executeQuery", "executeQueryOnPool"}

\* what the helpers leave alone: everything but their own activation
clientFrame == <<storeVars, variant, callState, callGot, taskQueue, workerTask, listeners, inbox,
                 outbox, pool, pc, handledBy, collectionsTable, keyValueTable, connections,
                 bootstraps, bootstrapped, received, answered, queryLog, context, closeCalled,
                 ended, delivery, registryCall>>

\* The method is called: its first await is connection.connect(), or, for the
\* version on the pool, connection.query.
TxCall(cl, method, n) ==
    /\ txn[cl].at = "idle"
    /\ method = "initializeSchema" => n = 2
    /\ method \in {"executeQuery", "executeQueryOnPool"} => n = 1
    /\ txn' = [txn EXCEPT ![cl] =
                [method |-> method,
                 at |-> IF method = "executeQueryOnPool" THEN "query" ELSE "connect",
                 left |-> n, failure |-> "none", acquired |-> 0, released |-> 0]]
    /\ UNCHANGED clientFrame

\* const client = await connection.connect(): outside the try block whose
\* finally releases; when it throws there is no client.
TxConnect(cl, ok) ==
    /\ txn[cl].at = "connect"
    /\ txn' = [txn EXCEPT ![cl] =
                IF ok
                THEN [@ EXCEPT !.acquired = @ + 1,
                               !.at = IF txn[cl].method = "executeQuery" THEN "query" ELSE "begin"]
                ELSE [@ EXCEPT !.failure = "connect", !.at = "idle"]]
    /\ UNCHANGED clientFrame

\* await client.query('BEGIN'), first statement of the try block
TxBegin(cl, ok) ==
    /\ txn[cl].at = "begin"
    /\ txn' = [txn EXCEPT ![cl] =
                IF ok
                THEN [@ EXCEPT !.at = IF txn[cl].left > 0 THEN "statement" ELSE "commit"]
                ELSE [@ EXCEPT !.failure = "begin", !.at = "rollback"]]
    /\ UNCHANGED clientFrame

\* one round of the loop over the queries: a query of invalid format or
\* without text throws as a failing statement does
TxStatement(cl, ok) ==
    /\ txn[cl].at = "statement"
    /\ txn' = [txn EXCEPT ![cl] =
                IF ok
                THEN [@ EXCEPT !.left = @ - 1,
                               !.at = IF txn[cl].left > 1 THEN "statement" ELSE "commit"]
                ELSE [@ EXCEPT !.failure = "statement", !.at = "rollback"]]
    /\ UNCHANGED clientFrame

\* await client.query('COMMIT'); return results
TxCommit(cl, ok) ==
    /\ txn[cl].at = "commit"
    /\ txn' = [txn EXCEPT ![cl] =
                IF ok
                THEN [@ EXCEPT !.at = "finally"]
                ELSE [@ EXCEPT !.failure = "commit", !.at = "rollback"]]
    /\ UNCHANGED clientFrame

\* (a ROLLBACK that throws leaves the method without the release)
TxRollbackThrowingPastRelease(cl, ok) ==
    /\ txn[cl].at = "rollback"
    /\ txn' = [txn EXCEPT ![cl] =
                IF ok
                THEN [@ EXCEPT !.at = "finally"]
                ELSE [@ EXCEPT !.failure = "rollback", !.at = "idle"]]
    /\ UNCHANGED clientFrame

\* catch (err) { await client.query('ROLLBACK'); throw err; }: the catch block
\* leaves by a throw whether the ROLLBACK succeeds or throws itself, and the
\* finally block runs after it.
TxRollback(cl, ok) ==
    /\ txn[cl].at = "rollback"
    /\ txn' = [txn EXCEPT ![cl] =
                IF ok
                THEN [@ EXCEPT !.at = "finally"]
                ELSE [@ EXCEPT !.failure = "rollback", !.at = "finally"]]
    /\ UNCHANGED clientFrame

\* executeQuery: return await client.query(query, queryParams) inside the try
\* block; executeQueryOnPool: await connection.query(queryText, queryParams),
\* which acquires no client.
TxQuery(cl, ok) ==
    /\ txn[cl].at = "query"
    /\ txn' = [txn EXCEPT ![cl] =
                [@ EXCEPT !.failure = IF ok THEN "none" ELSE "statement",
                          !.at = IF txn[cl].method = "executeQuery" THEN "finally" ELSE "idle"]]
    /\ UNCHANGED clientFrame

\* finally { client.release(); }
TxFinally(cl) ==
    /\ txn[cl].at = "finally"
    /\ txn' = [txn EXCEPT ![cl] = [@ EXCEPT !.released = @ + 1, !.at = "idle"]]
    /\ UNCHANGED clientFrame

\* No engine and no store: two callers, none inside a helper yet.
ClientInit ==
    /\ StoreOff
    /\ EngineState("off", FALSE)
    /\ delivery = <<>>
    /\ txn = [cl \in Clients |-> NoTx]
    /\ registryCall = <<>>

ClientNext ==
    \/ \E cl \in Clients, m \in TxMethods, n \in 0..MaxStatements : TxCall(cl, m, n)
    \/ \E cl \in Clients, ok \in BOOLEAN : TxConnect(cl, ok)
    \/ \E cl \in Clients, ok \in BOOLEAN : TxBegin(cl, ok)
    \/ \E cl \in Clients, ok \in BOOLEAN : TxStatement(cl, ok)
    \/ \E cl \in Clients, ok \in BOOLEAN : TxCommit(cl, ok)
    \/ \E cl \in Clients, ok \in BOOLEAN : TxRollback(cl, ok)
    \/ \E cl \in Clients, ok \in BOOLEAN : TxQuery(cl, ok)
    \/ \E cl \in Clients : TxFinally(cl)

ClientSpec == ClientInit /\ [][ClientNext]_vars

-----------------------------------------------------------------------------
(* ConnectionRegistry: createConnection, testConnection *)

\* the dialects with an entry in DEFAULT_CONFIGS, one without, and a type
\* that is no string
DefaultConfigs == {"postgresql", "mysql", "sqlserver"}
RegistryTypes == DefaultConfigs \cup {"oracle", "undefined"}

registryFrame == <<storeVars, variant, callState, callGot, taskQueue, workerTask, listeners,
                   inbox, outbox, pool, pc, handledBy, collectionsTable, keyValueTable,
                   connections, bootstraps, bootstrapped, received, answered, queryLog, context,
                   closeCalled, ended, delivery, txn>>

\* createConnection(type, customConfig) or testConnection(type, customConfig)
\* is called; testConnection starts with let connection = null and awaits
\* createConnection inside its try block.
Registry_call(cl, method, type, customConfig) ==
    /\ registryCall[cl].at = "idle"
    /\ registryCall' = [registryCall EXCEPT ![cl] =
            [NoRegistryCall EXCEPT !.method = method, !.type = type,
                                   !.customConfig = customConfig, !.at = "config"]]
    /\ UNCHANGED registryFrame

\* const dbType = type.toLowerCase() throws a TypeError for a type that is no
\* string; without customConfig and without a default configuration the
\* method throws `No configuration found`: both before anything is opened.
Registry_config(cl) ==
    /\ registryCall[cl].at = "config"
    /\ LET r == registryCall[cl]
           config == r.customConfig \/ r.type \in DefaultConfigs
       IN  registryCall' = [registryCall EXCEPT ![cl] =
               IF r.type = "undefined" \/ ~config
               THEN [@ EXCEPT !.at = "raised"]
               ELSE [@ EXCEPT !.at = "open"]]
    /\ UNCHANGED registryFrame

\* the switch inside the try block: new Pool(config), await
\* mysql.createPool(config), await sql.connect(config); default: throw
\* `Unsupported database type`. When the call that opens throws, connection is
\* still null.
Registry_open(cl, ok) ==
    /\ registryCall[cl].at = "open"
    /\ registryCall[cl].type \notin DefaultConfigs => ~ok
    /\ registryCall' = [registryCall EXCEPT ![cl] =
            IF ok
            THEN [@ EXCEPT !.connection = "open", !.opened = @ + 1, !.at = "check"]
            ELSE [@ EXCEPT !.at = "catch"]]
    /\ UNCHANGED registryFrame

\* await connection.query('SELECT 1'); break; return connection
Registry_check(cl, ok) ==
    /\ registryCall[cl].at = "check"
    /\ registryCall' = [registryCall EXCEPT ![cl] =
            IF ok
            THEN [@ EXCEPT !.connection = "checked", !.at = "returned"]
            ELSE [@ EXCEPT !.at = "catch"]]
    /\ UNCHANGED registryFrame

\* end() or close() of a handle: it closes the handle and resolves, and
\* rejects when the handle was ended before (`Called end on pool more than once`)
EndOfHandle(r) ==
    [r EXCEPT !.ends = @ + 1, !.connection = IF r.ends = 0 THEN "closed" ELSE r.connection]

\* (a catch block that throws without closing the handle)
Registry_catchWithoutEnd(cl) ==
    /\ registryCall[cl].at = "catch"
    /\ registryCall' = [registryCall EXCEPT ![cl] = [@ EXCEPT !.at = "raised"]]
    /\ UNCHANGED registryFrame

\* catch (error) { if (connection) await connection.end() / close();
\*                 throw new Error(`Failed to connect to ...`) }
Registry_catch(cl) ==
    /\ registryCall[cl].at = "catch"
    /\ registryCall' = [registryCall EXCEPT ![cl] =
            [(IF @.connection # "null" THEN EndOfHandle(@) ELSE @) EXCEPT !.at = "raised"]]
    /\ UNCHANGED registryFrame

\* createConnection has returned the handle or thrown. Its own caller gets
\* that; in testConnection the try block assigns the handle to connection and
\* returns true, or the catch block logs and returns false, and then the
\* finally block ends the handle if connection is set.
Registry_settle(cl) ==
    /\ registryCall[cl].at \in {"returned", "raised"}
    /\ LET r == registryCall[cl]
           returned == r.at = "returned"
       IN  registryCall' = [registryCall EXCEPT ![cl] =
               IF r.method = "createConnection"
               THEN [@ EXCEPT !.at = "idle",
                              !.result = IF returned THEN "handle" ELSE "raised"]
               ELSE IF returned
               THEN [EndOfHandle(@) EXCEPT
                        !.at = "idle",
                        !.result = IF r.ends = 0 THEN "true" ELSE "raised"]
               ELSE [@ EXCEPT !.at = "idle", !.result = "false"]]
    /\ UNCHANGED registryFrame

\* No engine and no store: two callers, none inside the registry yet.
RegistryInit ==
    /\ StoreOff
    /\ EngineState("off", FALSE)
    /\ delivery = <<>>
    /\ txn = <<>>
    /\ registryCall = [cl \in Clients |-> NoRegistryCall]

RegistryNext ==
    \/ \E cl \in Clients, m \in {"createConnection", "testConnection"}, t \in RegistryTypes,
          customConfig \in BOOLEAN : Registry_call(cl, m, t, customConfig)
    \/ \E cl \in Clients : Registry_config(cl)
    \/ \E cl \in Clients, ok \in BOOLEAN : Registry_open(cl, ok)
    \/ \E cl \in Clients, ok \in BOOLEAN : Registry_check(cl, ok)
    \/ \E cl \in Clients : Registry_catch(cl)
    \/ \E cl \in Clients : Registry_settle(cl)

RegistrySpec == RegistryInit /\ [][RegistryNext]_vars

-----------------------------------------------------------------------------
(* The store's state machine *)

\* An empty database whose schema bootstrap is done, under one of the two adapters.
StoreInit ==
    /\ adapter \in {"SQLAdapter", "PostgreSQLDb"}
    /\ existing = {}
    /\ rows = [n \in Names |-> {}]
    /\ registry = {}
    /\ now = 1
    /\ inflight = [cl \in Clients |-> Idle]
    /\ last = Outcome("none", <<>>, NoPk, TRUE, "")
    /\ EngineState("off", TRUE)
    \* no Facade method is followed to its caller, and no caller is inside a
    \* helper of the strategy or of the registry
    /\ delivery = <<>>
    /\ txn = <<>>
    /\ registryCall = <<>>

StoreNext ==
    \/ \E n \in Names, ix \in IndexLists, failAt \in 0..3 : Task_createCollection(n, ix, failAt)
    \/ \E n \in Names, failAt \in 0..2 : Task_removeCollection(n, failAt)
    \/ \E n \in Names, pk \in PKs, d \in Docs, t \in 1..MaxNow : Task_insertRecord(n, pk, d, t)
    \/ Task_getCollections
    \/ \E n \in Names : Task_queueSize(n)
    \/ \E n \in Names : Task_listQueue(n, "asc", NoMax)
    \/ \E n \in Names, pk \in PKs, d \in Docs, t \in 1..MaxNow : Task_updateRecord(n, pk, d, t)
    \/ \E n \in Names, pk \in PKs : Task_deleteRecord(n, pk)
    \/ \E n \in Names, pk \in PKs : Task_getRecord(n, pk)
    \/ \E n \in Names, f \in FilterCalls : Task_filter(n, f.conditions, f.sort, f.max)
    \/ \E n \in WellFormedNames, ix \in IndexLists, failAt \in 0..3 :
            PostgreSQLDb_createCollection(n, ix, failAt)
    \/ \E n \in WellFormedNames, failAt \in 0..2 : PostgreSQLDb_removeCollection(n, failAt)
    \/ \E cl \in Clients, n \in WellFormedNames, pk \in PKs :
            PostgreSQLDb_insertRecord_ensure(cl, n, pk)
    \/ \E cl \in Clients : PostgreSQLDb_insertRecord_select(cl)
    \/ \E cl \in Clients, d \in Docs, t \in 1..MaxNow : PostgreSQLDb_insertRecord_insert(cl, d, t)
    \/ PostgreSQLDb_getCollections
    \/ \E n \in WellFormedNames : PostgreSQLDb_queueSize(n)
    \/ \E n \in WellFormedNames : PostgreSQLDb_listQueue(n, "asc", NoMax)
    \/ \E n \in WellFormedNames, pk \in PKs, d \in Docs, t \in 1..MaxNow :
            PostgreSQLDb_updateRecord(n, pk, d, t)
    \/ \E n \in WellFormedNames, pk \in PKs : PostgreSQLDb_deleteRecord(n, pk)
    \/ \E n \in WellFormedNames, pk \in PKs : PostgreSQLDb_getRecord(n, pk)
    \/ \E n \in WellFormedNames, f \in FilterCalls :
            PostgreSQLDb_filter(n, f.conditions, f.sort, f.max)

StoreSpec == StoreInit /\ [][StoreNext]_vars

-----------------------------------------------------------------------------
(* The queues' state machine *)

\* An empty database whose schema bootstrap is done, under the facade's worker,
\* PostgreSQLDb or sqlWorker.
QueueInit ==
    /\ adapter \in {"SQLAdapter", "PostgreSQLDb", "sqlWorker"}
    /\ existing = {}
    /\ rows = [n \in Names |-> {}]
    /\ registry = {}
    /\ now = 1
    /\ inflight = [cl \in Clients |-> Idle]
    /\ last = Outcome("none", <<>>, NoPk, TRUE, "")
    /\ EngineState("off", TRUE)
    \* no Facade method is followed to its caller, and no caller is inside a
    \* helper of the strategy or of the registry
    /\ delivery = <<>>
    /\ txn = <<>>
    /\ registryCall = <<>>

\* The keys a caller can hold: the content keys, and the keys of stored entries.
KnownPKs(n) == QueuePKs \cup {r.pk : r \in rows[n]}

\* A queue is filled up to MaxEntries entries, by one caller at a time.
MaxEntries == 2
HasRoom(n) == Cardinality(rows[n]) < MaxEntries
QueueClients == {1}

Sorts == {"asc", "desc"}
Limits == {NoMax, 1}

QueueNext ==
    \/ \E n \in WellFormedNames : Task_createCollection(n, <<>>, 0)
    \/ \E n \in WellFormedNames, pk \in QueuePKs, d \in Docs, t \in 1..MaxNow :
            HasRoom(n) /\ Task_insertRecord(n, pk, d, t)
    \/ \E n \in WellFormedNames, pk \in QueuePKs : Task_deleteRecord(n, pk)
    \/ \E n \in WellFormedNames, d \in Docs, u \in BOOLEAN : Task_addInQueue(n, d, u)
    \/ \E n \in WellFormedNames : \E pk \in KnownPKs(n) : Task_getObjectFromQueue(n, pk)
    \/ \E n \in WellFormedNames : \E pk \in KnownPKs(n) : Task_deleteObjectFromQueue(n, pk)
    \/ \E n \in WellFormedNames : Task_queueSize(n)
    \/ \E n \in WellFormedNames, sort \in Sorts, max \in Limits : Task_listQueue(n, sort, max)
    \/ \E n \in WellFormedNames, d \in Docs, u \in BOOLEAN, r \in Randoms,
          k \in 1..MaxNow, t \in 1..MaxNow :
            HasRoom(n) /\ SqlWorker_addInQueue(n, d, u, r, k, t)
    \/ \E cl \in QueueClients, n \in WellFormedNames, d \in Docs, u \in BOOLEAN,
          r \in Randoms, k \in 1..MaxNow :
            HasRoom(n) /\ PostgreSQLDb_addInQueue(cl, n, d, u, r, k)
    \/ \E cl \in QueueClients, n \in WellFormedNames, pk \in QueuePKs :
            HasRoom(n) /\ PostgreSQLDb_insertRecord_ensure(cl, n, pk)
    \/ \E cl \in QueueClients : PostgreSQLDb_insertRecord_select(cl)
    \/ \E cl \in QueueClients, d \in Docs, t \in 1..MaxNow :
            PostgreSQLDb_insertRecord_insert(cl, d, t)
    \/ \E n \in WellFormedNames : \E pk \in KnownPKs(n) : PostgreSQLDb_getObjectFromQueue(n, pk)
    \/ \E n \in WellFormedNames : \E pk \in KnownPKs(n) : PostgreSQLDb_deleteObjectFromQueue(n, pk)
    \/ \E n \in WellFormedNames : PostgreSQLDb_queueSize(n)
    \/ \E n \in WellFormedNames, sort \in Sorts, max \in Limits :
            PostgreSQLDb_listQueue(n, sort, max)

QueueSpec == QueueInit /\ [][QueueNext]_vars

-----------------------------------------------------------------------------
(* sqlWorker: the reads of case 'executeQuery' *)

\* async function ensureTableExists(tableName):
\*   await strategy.executeQuery(connection, strategy.createKeyValueTable(tableName))
\* CREATE TABLE IF NOT EXISTS "<tableName>" (pk, data, __timestamp); the registry
\* is not written.
ensureTableExists(tableName) == existing' = existing \cup {tableName}

\* ensureTableExists(tableName), then SELECT COUNT(*); the result of the
\* driver is returned as it is.
SqlWorker_queueSize(queueName) ==
    /\ adapter = "sqlWorker"
    /\ ensureTableExists(queueName)
    /\ last' = [Outcome("queueSize", queueName, NoPk, TRUE, "") EXCEPT
                    !.at = "SELECT", !.interpolated = {queueName},
                    !.count = Cardinality(rows[queueName])]
    /\ UNCHANGED <<adapter, rows, registry, now, inflight>>
    /\ UNCHANGED engineVars

\* ensureTableExists(tableName), then the statement of strategy.listQueue
SqlWorker_listQueue(queueName, sortAfterInsertTime, onlyFirstN) ==
    /\ adapter = "sqlWorker"
    /\ ensureTableExists(queueName)
    /\ \E result \in SqlSelect(rows[queueName],
                               listQueue(queueName, sortAfterInsertTime, onlyFirstN)) :
            last' = [Outcome("listQueue", queueName, NoPk, TRUE, "") EXCEPT
                        !.at = "SELECT", !.interpolated = {queueName},
                        !.sort = sortAfterInsertTime, !.max = onlyFirstN,
                        !.inText = ValuesInText(<<>>, onlyFirstN),
                        !.list = [i \in DOMAIN result |-> result[i].pk]]
    /\ UNCHANGED <<adapter, rows, registry, now, inflight>>
    /\ UNCHANGED engineVars

\* ensureTableExists(tableName) before anything else, then the conditions are
\* converted and strategy.filter(tableName, whereClause, sort, max) is called
\* with the sort word itself, whose .field and .direction are undefined: the
\* statement orders by __timestamp ASC.
SqlWorker_filter(tableName, conditions, sort, max) ==
    /\ adapter = "sqlWorker"
    /\ ensureTableExists(tableName)
    /\ LET whereClause == IF Len(conditions) > 0
                          THEN convertConditionsToLokiQuery(JsArray(conditions))
                          ELSE JsString(<<>>)
           query == filter(tableName, whereClause,
                           [field |-> "__timestamp", direction |-> "ASC"], max)
           out(ok, error) ==
               [Outcome("filter", tableName, NoPk, ok, error) EXCEPT
                    !.at = "SELECT", !.interpolated = {tableName},
                    !.conds = conditions, !.sort = sort, !.max = max,
                    !.inText = ValuesInText(whereClause.items, NoMax)
                                 \cup ValuesInText(query.where, query.limit)]
       IN  IF whereClause.type = "throw" \/ query.throw
           THEN last' = out(FALSE, "InvalidCondition")
           ELSE \E result \in SqlSelect(rows[tableName], query) :
                    last' = [out(TRUE, "") EXCEPT !.list = parseFilterResults(result)]
    /\ UNCHANGED <<adapter, rows, registry, now, inflight>>
    /\ UNCHANGED engineVars

-----------------------------------------------------------------------------
(* The reads' state machine *)

\* An empty database whose schema bootstrap is done, under the facade's worker,
\* PostgreSQLDb or sqlWorker; collections are created and filled, and read.
ReadInit == QueueInit

ReadNext ==
    \/ \E n \in WellFormedNames : Task_createCollection(n, <<>>, 0)
    \/ \E n \in WellFormedNames, pk \in PKs, d \in Docs, t \in 1..MaxNow :
            Task_insertRecord(n, pk, d, t)
    \/ \E n \in WellFormedNames, pk \in PKs : Task_getRecord(n, pk)
    \/ \E n \in WellFormedNames, f \in FilterCalls : Task_filter(n, f.conditions, f.sort, f.max)
    \/ \E n \in WellFormedNames : Task_queueSize(n)
    \/ \E n \in WellFormedNames, sort \in Sorts, max \in Limits : Task_listQueue(n, sort, max)
    \/ \E n \in WellFormedNames, pk \in PKs : Task_getObjectFromQueue(n, pk)
    \/ \E n \in WellFormedNames : PostgreSQLDb_createCollection(n, <<>>, 0)
    \/ \E cl \in QueueClients, n \in WellFormedNames, pk \in PKs :
            PostgreSQLDb_insertRecord_ensure(cl, n, pk)
    \/ \E cl \in QueueClients : PostgreSQLDb_insertRecord_select(cl)
    \/ \E cl \in QueueClients, d \in Docs, t \in 1..MaxNow :
            PostgreSQLDb_insertRecord_insert(cl, d, t)
    \/ \E n \in WellFormedNames, pk \in PKs : PostgreSQLDb_getRecord(n, pk)
    \/ \E n \in WellFormedNames, f \in FilterCalls :
            PostgreSQLDb_filter(n, f.conditions, f.sort, f.max)
    \/ \E n \in WellFormedNames : PostgreSQLDb_queueSize(n)
    \/ \E n \in WellFormedNames, sort \in Sorts, max \in Limits :
            PostgreSQLDb_listQueue(n, sort, max)
    \/ \E n \in WellFormedNames, pk \in PKs : PostgreSQLDb_getObjectFromQueue(n, pk)
    \/ \E n \in WellFormedNames, d \in Docs, u \in BOOLEAN, r \in Randoms,
          k \in 1..MaxNow, t \in 1..MaxNow :
            HasRoom(n) /\ SqlWorker_addInQueue(n, d, u, r, k, t)
    \/ \E n \in WellFormedNames : SqlWorker_queueSize(n)
    \/ \E n \in WellFormedNames, sort \in Sorts, max \in Limits :
            SqlWorker_listQueue(n, sort, max)
    \/ \E n \in WellFormedNames, f \in FilterCalls :
            SqlWorker_filter(n, f.conditions, f.sort, f.max)

ReadSpec == ReadInit /\ [][ReadNext]_vars

-----------------------------------------------------------------------------
(* The key-value entries' state machine *)

\* A database after the schema bootstrap: PostgreSQLDb's creates the key-value
\* table, the worker's does not.
KeyValueInit ==
    /\ adapter \in {"SQLAdapter", "PostgreSQLDb"}
    /\ existing = {}
    /\ rows = [n \in Names \cup {READ_WRITE_KEY_TABLE} |-> {}]
    /\ registry = {}
    /\ now = 1
    /\ inflight = [cl \in Clients |-> Idle]
    /\ last = KeyValueOutcome("none", NoPk, Undefined, TRUE, "", "")
    /\ EngineState("off", TRUE)
    \* no Facade method is followed to its caller, and no caller is inside a
    \* helper of the strategy or of the registry
    /\ delivery = <<>>
    /\ txn = <<>>
    /\ registryCall = <<>>

KeyValueNext ==
    \/ \E k \in PKs, v \in Values, t \in 1..MaxNow : Task_writeKey(k, v, t)
    \/ \E k \in PKs : Task_readKey(k)
    \/ \E k \in PKs, v \in Values, t \in 1..MaxNow : PostgreSQLDb_writeKey(k, v, t)
    \/ \E k \in PKs : PostgreSQLDb_readKey(k)

KeyValueSpec == KeyValueInit /\ [][KeyValueNext]_vars

-----------------------------------------------------------------------------
(* The reserved tables' state machine *)

\* the collection names of the calls: an ordinary one and the key-value table's
ReservedRunNames == WellFormedNames \cup {READ_WRITE_KEY_TABLE}

\* the values written under the keys
ReservedRunValues == {v \in Values : v.t = "string"}

ReservedInit == KeyValueInit

ReservedNext ==
    \/ \E n \in ReservedRunNames : Task_createCollection(n, <<>>, 0)
    \/ \E n \in ReservedRunNames : Task_removeCollection(n, 0)
    \/ \E n \in WellFormedNames, pk \in PKs, d \in Docs, t \in 1..MaxNow :
            Task_insertRecord(n, pk, d, t)
    \/ Task_getCollections
    \/ \E k \in PKs, v \in ReservedRunValues, t \in 1..MaxNow : Task_writeKey(k, v, t)
    \/ \E k \in PKs : Task_readKey(k)
    \/ \E n \in ReservedRunNames : PostgreSQLDb_createCollection(n, <<>>, 0)
    \/ \E n \in ReservedRunNames : PostgreSQLDb_removeCollection(n, 0)
    \/ PostgreSQLDb_getCollections
    \/ \E k \in PKs, v \in ReservedRunValues, t \in 1..MaxNow : PostgreSQLDb_writeKey(k, v, t)
    \/ \E k \in PKs : PostgreSQLDb_readKey(k)

ReservedSpec == ReservedInit /\ [][ReservedNext]_vars

-----------------------------------------------------------------------------
(* ------------------- claims about the execution engine ----------------- *)

IsSettled(c) == callState[c] \in {"resolved", "rejected"}

\* C1: every settled call received the response produced for its own task,
\* and no response was delivered to two callers.
C1_EachCallGetsItsOwnResponse ==
    /\ \A c \in Calls : IsSettled(c) => callGot[c] = c
    /\ \A c, d \in Calls : (c # d /\ IsSettled(c) /\ IsSettled(d)) => callGot[c] # callGot[d]

\* C7: a context has at most one unfinished task at any time, and it answers
\* its tasks in the order it received them.
C7_OneTaskAtATimeInOrder ==
    \A w \in Workers :
        /\ Cardinality({c \in Calls : handledBy[c] = w /\ Active(c)}) <= 1
        /\ Len(answered[w]) <= Len(received[w])
        /\ answered[w] = SubSeq(received[w], 1, Len(answered[w]))

\* C8: a context creates at most one connection+strategy pair during its life
\* and starts schema bootstrap at most once.
C8_OneConnectionPerContext ==
    \A w \in Workers : connections[w] <= 1 /\ bootstraps[w] <= 1

\* C9: every query of a task ran on a context whose schema bootstrap had
\* completed successfully, with both the registry table and the key-value
\* table in existence.
C9_QueriesOnlyAfterBootstrap ==
    \A q \in queryLog : q.bootstrapped /\ q.collections /\ q.keyValue

-----------------------------------------------------------------------------
(* ------------------------ claims about the store ----------------------- *)

PkUnique == \A n \in Names : \A r1, r2 \in rows[n] : r1.pk = r2.pk => r1 = r2

\* C2: a collection never holds two records with one primary key. An
\* insertRecord that reaches the table when the key is already there fails with
\* a duplicate-key error and changes no stored record (body and timestamp stay);
\* an INSERT of an absent key succeeds and leaves exactly one record for the
\* key -- so of the inserts racing on one absent key the first succeeds and
\* every later one finds the key present and fails.
C2_PrimaryKeyUniqueInsertFailsOnExistingKey ==
    [][ /\ PkUnique'
        /\ (/\ last'.op = "insertRecord"
            /\ last'.done
            /\ last'.name \in existing) =>
              IF RowsWithPk(rows[last'.name], last'.pk) # {}
              THEN /\ ~last'.ok
                   /\ last'.error = "DuplicateKey"
                   /\ rows' = rows
              ELSE /\ last'.at = "INSERT"
                   /\ last'.ok
                   /\ Cardinality(RowsWithPk(rows'[last'.name], last'.pk)) = 1
      ]_vars

\* Two PostgreSQLDb.insertRecord calls raced on one absent key: both passed the
\* SELECT, one inserted, and the INSERT of the other was rejected.
C2_Witness ==
    /\ adapter = "PostgreSQLDb"
    /\ last.op = "insertRecord"
    /\ last.at = "INSERT"
    /\ last.error = "DuplicateKey"
    /\ Cardinality(RowsWithPk(rows[last.name], last.pk)) = 1

\* C3: getRecord(name, pk) of a stored record returns the fields of the inserted
\* document together with pk equal to the key and the record's __timestamp.
C3_GetRecordReturnsDocumentWithPkAndTimestamp ==
    (last.op = "getRecord" /\ last.ok) =>
        \A r \in RowsWithPk(rows[last.name], last.pk) :
            \E doc \in Docs :
                /\ r.data = JSONStringify(doc)
                /\ last.found
                /\ last.record = Merge(doc, last.pk, r.ts)

\* C4: a createCollection or removeCollection that reports an error leaves the
\* set of storage tables, their rows and the registry exactly as before the call.
C4_FailedCollectionOperationChangesNothing ==
    [][ (last'.op \in {"createCollection", "removeCollection"} /\ ~last'.ok) =>
            (existing' = existing /\ rows' = rows /\ registry' = registry) ]_vars

\* C5: an operation given a name outside [A-Za-z0-9_]+ fails with a validation
\* error and sends no statement whose text holds the name.
C5_IllFormedNameIsRejectedBeforeAnyStatement ==
    (last.op \notin {"none", "getCollections"} /\ ~IsSafeIdentifier(last.name)) =>
        (~last.ok /\ last.error = "InvalidTableName" /\ last.interpolated = {})

\* field <operator> value, numerically, on a document
Satisfies(doc, condition) ==
    /\ condition[1] \in DOMAIN doc
    /\ Compare(doc[condition[1]], condition[2], Numeral(condition[3]))

\* C6: filter(name, conditions) without max returns exactly the records of the
\* collection that satisfy every condition of the list.
C6_FilterReturnsExactlyTheMatchingRecords ==
    (last.op = "filter" /\ last.ok /\ last.max = NoMax) =>
        SeqRange(last.list) =
            {Merge(JSONParse(r.data), r.pk, r.ts) :
                r \in {x \in rows[last.name] :
                        \A i \in DOMAIN last.conds :
                            Satisfies(JSONParse(x.data), last.conds[i])}}

\* {...body, pk, __timestamp} of a stored row
Merged(r) == Merge(JSONParse(r.data), r.pk, r.ts)

\* C11: every operation that produces a record returns the stored body merged
\* with pk and __timestamp at the top level, pk and __timestamp being the stored
\* key and the stored timestamp also when the document has fields of these
\* names: insertRecord, updateRecord and getRecord return the row as it is
\* stored after the call, deleteRecord the row as it was stored before it, and
\* every element of a filter result is a stored row.
C11_RecordResultsAreMergedWithStoredPkAndTimestamp ==
    [][ /\ (/\ last'.op \in {"insertRecord", "updateRecord", "getRecord"}
            /\ last'.done /\ last'.ok /\ last'.found) =>
                \E r \in RowsWithPk(rows'[last'.name], last'.pk) : last'.record = Merged(r)
        /\ (last'.op = "deleteRecord" /\ last'.ok /\ last'.found) =>
                \E r \in RowsWithPk(rows[last'.name], last'.pk) : last'.record = Merged(r)
        /\ (last'.op = "filter" /\ last'.ok) =>
                \A i \in DOMAIN last'.list :
                    \E r \in rows'[last'.name] : last'.list[i] = Merged(r) ]_vars

\* the fields of a returned record other than pk and __timestamp
Body(record) == [f \in DOMAIN record \ {"pk", "__timestamp"} |-> record[f]]

\* C12: updateRecord(name, pk, doc) on a stored record succeeds and returns a
\* record whose body is the body stored by the call and whose __timestamp is
\* strictly greater than the timestamp the record had before the call; a
\* getRecord of a stored record returns the body that is stored, so the one
\* that follows the update returns the updated body.
C12_UpdateReturnsNewBodyAndLaterTimestamp ==
    [][ /\ (/\ last'.op = "updateRecord"
            /\ last'.ok
            /\ RowsWithPk(rows[last'.name], last'.pk) # {}) =>
                /\ last'.found
                /\ \A old \in RowsWithPk(rows[last'.name], last'.pk) :
                        last'.record["__timestamp"] > old.ts
                /\ \E r \in RowsWithPk(rows'[last'.name], last'.pk) :
                        /\ Body(last'.record) = Body(JSONParse(r.data))
                        /\ last'.record["__timestamp"] = r.ts
        /\ (/\ last'.op = "getRecord"
            /\ last'.ok
            /\ RowsWithPk(rows'[last'.name], last'.pk) # {}) =>
                /\ last'.found
                /\ \E r \in RowsWithPk(rows'[last'.name], last'.pk) :
                        Body(last'.record) = Body(JSONParse(r.data)) ]_vars

\* C13: a deleteRecord(name, pk) that succeeds removes the record of that key and
\* no other record, of this or of any other collection; on a key that is not
\* stored it reports that nothing was found (no record comes back) and changes
\* nothing; a getRecord of a key that is not stored, as the one following the
\* delete, finds nothing.
C13_DeleteRemovesExactlyTheRecord ==
    [][ /\ (last'.op = "deleteRecord" /\ last'.ok) =>
                /\ rows' = [rows EXCEPT ![last'.name] =
                                rows[last'.name] \ RowsWithPk(rows[last'.name], last'.pk)]
                /\ existing' = existing
                /\ registry' = registry
                /\ RowsWithPk(rows[last'.name], last'.pk) = {} => ~last'.found
        /\ (/\ last'.op = "getRecord"
            /\ last'.ok
            /\ RowsWithPk(rows'[last'.name], last'.pk) = {}) => ~last'.found ]_vars

\* how many times a name occurs in a list of names
Occurrences(list, name) == Cardinality({i \in DOMAIN list : list[i] = name})

\* C14: a createCollection(t, indices) that succeeds leaves exactly one registry
\* entry for t, whether or not t was created before, and keeps every stored
\* record; getCollections returns each registered name exactly once and no
\* other name, so after a successful createCollection, repeated or not, it
\* contains t exactly once.
C14_CreateCollectionIsIdempotent ==
    [][ /\ (last'.op = "createCollection" /\ last'.ok) =>
                /\ Cardinality({r \in registry' : r.name = last'.name}) = 1
                /\ last'.name \in existing'
                /\ existing \subseteq existing'
                /\ rows' = rows
        /\ (last'.op = "getCollections" /\ last'.ok) =>
                \A n \in Names :
                    Occurrences(last'.list, n) =
                        IF \E r \in registry' : r.name = n THEN 1 ELSE 0 ]_vars

\* createCollection succeeded again on a collection that holds records
C14_Witness ==
    /\ adapter = "SQLAdapter"
    /\ last.op = "createCollection"
    /\ last.ok
    /\ rows[last.name] # {}
    /\ \E r \in registry : r.name = last.name /\ r.indices # <<>>

Registered(R, name) == \E r \in R : r.name = name

\* C15: removeCollection(t) is atomic: when it succeeds the storage table is
\* gone and the registry has no entry for t, and no call, failed or not, drops
\* the table and leaves the entry or removes the entry and leaves the table.
C15_RemoveCollectionIsAtomic ==
    [][ last'.op = "removeCollection" =>
            /\ last'.ok =>
                    (last'.name \notin existing' /\ ~Registered(registry', last'.name))
            /\ ~(/\ last'.name \in existing
                 /\ last'.name \notin existing'
                 /\ Registered(registry', last'.name))
            /\ ~(/\ Registered(registry, last'.name)
                 /\ ~Registered(registry', last'.name)
                 /\ last'.name \in existing') ]_vars

\* the response a step has put at the end of a context's outbox, if any
Posted(w) == IF Len(outbox'[w]) > Len(outbox[w])
             THEN {outbox'[w][Len(outbox'[w])]}
             ELSE {}

\* C16: a createCollection with an unsafe name is rejected with the validation
\* error before any context has received the call -- the call was never handed
\* to a context and no handler activation ran for it, so it opened no
\* connection -- and the step that rejects it creates no table and opens no
\* connection.
C16_UnsafeNameIsRejectedBeforeDispatch ==
    [][ \A w \in Workers : \A r \in Posted(w) :
            r.error = "InvalidTableName" =>
                /\ handledBy[r.task] = 0
                /\ r.task \notin SeqRange(received[w])
                /\ collectionsTable' = collectionsTable
                /\ keyValueTable' = keyValueTable
                /\ connections' = connections ]_vars

Operators == {"=", "!=", "<", "<=", ">", ">="}

WellFormedCondition(condition) == Len(condition) = 3 /\ condition[2] \in Operators

\* C17: a filter whose list holds a condition that is not made of exactly three
\* parts, or whose operator is none of =, !=, <, <=, >, >=, fails with the
\* validation error of conditions and sends no statement.
C17_MalformedConditionIsRejectedBeforeAnySql ==
    (/\ last.op = "filter"
     /\ \E i \in DOMAIN last.conds : ~WellFormedCondition(last.conds[i])) =>
        (~last.ok /\ last.error = "InvalidCondition" /\ last.interpolated = {})

\* C18: no statement built for an operation holds a value of the caller (a
\* primary key, a document body, the value a filter condition compares with, a
\* result limit) in its text: they all travel in the parameter list.
C18_CallerValuesAreBoundNeverInterpolated ==
    last.inText = {}

\* the stored rows of the collection that satisfy every condition of the call
Matches == {x \in rows[last.name] :
                \A i \in DOMAIN last.conds : Satisfies(JSONParse(x.data), last.conds[i])}

\* a comes no later than b in the order the call asks for
InOrder(a, b) == IF last.sort = "desc" THEN a >= b ELSE a <= b

\* C19: a filter that succeeds returns matches only, ordered by __timestamp --
\* non-decreasing, and non-increasing for 'desc' -- with or without conditions;
\* without max it returns every match, with max = k the first min(k, number of
\* matches) of that order: no match left out comes before a returned one.
C19_FilterOrdersByTimestampAndTakesTheFirstMax ==
    (last.op = "filter" /\ last.ok) =>
        /\ SeqRange(last.list) \subseteq {Merged(r) : r \in Matches}
        /\ \A i, j \in DOMAIN last.list :
                i < j => InOrder(last.list[i]["__timestamp"], last.list[j]["__timestamp"])
        /\ Len(last.list) = IF last.max = NoMax \/ last.max > Cardinality(Matches)
                            THEN Cardinality(Matches)
                            ELSE last.max
        /\ \A r \in Matches :
                Merged(r) \notin SeqRange(last.list) =>
                    \A i \in DOMAIN last.list : InOrder(last.list[i]["__timestamp"], r.ts)

\* C20: listQueue and queueSize of a queue whose storage table does not exist
\* succeed, with the empty list and with 0.
C20_UnwrittenQueueIsEmptyNotAnError ==
    (last.op \in {"listQueue", "queueSize"} /\ last.name \notin existing) =>
        (last.ok /\ last.list = <<>> /\ last.count = 0)

-----------------------------------------------------------------------------
(* ------------------------- claims about queues -------------------------- *)

\* The key addInQueue derives from a payload when uniqueness is not asked for.
ContentKey(object) == QueuePk(object, FALSE, 0, "")

\* C21: an addInQueue(name, obj) without uniqueness that has called back has
\* succeeded with the key derived from the payload alone, and the queue holds
\* exactly one entry under that key, also when the same payload was added before.
C21_EqualPayloadsShareOneEntry ==
    (last.op = "addInQueue" /\ last.done /\ ~last.unique) =>
        /\ last.ok
        /\ last.pk = ContentKey(last.arg)
        /\ Cardinality(RowsWithPk(rows[last.name], last.pk)) = 1

\* The fields of a document that the caller owns: pk and __timestamp are the
\* result's own.
OwnFields(d) == DOMAIN d \ {"pk", "__timestamp"}

AgreesWith(result, object) ==
    /\ OwnFields(object) \subseteq DOMAIN result
    /\ \A f \in OwnFields(object) : result[f] = object[f]

GetsFromQueue(o) == o.op \in {"getObjectFromQueue", "getRecord"}
DeletesFromQueue(o) == o.op \in {"deleteObjectFromQueue", "deleteRecord"}

KeysIn(n) == {r.pk : r \in rows[n]}

Shortest(a, b) == IF a < b THEN a ELSE b

\* C23: a listQueue that directly follows a successful addInQueue on that queue
\* returns keys of its entries without repetition: all of them, or the first N
\* with a limit of N; the entry just added, the latest, is the last of the full
\* ascending list, the first of a descending list, and is not among the first N
\* of an ascending list when the queue holds more than N entries.
C23_ListQueueFollowsTheOrderOfAdding ==
    [][(/\ last.op = "addInQueue" /\ last.done /\ last.ok
        /\ last'.op = "listQueue" /\ last'.ok /\ last'.name = last.name) =>
           LET n == last.name
               list == last'.list
               size == Cardinality(KeysIn(n))
           IN  /\ SeqRange(list) \subseteq KeysIn(n)
               /\ Cardinality(SeqRange(list)) = Len(list)
               /\ Len(list) = IF last'.max = NoMax THEN size ELSE Shortest(last'.max, size)
               /\ (last'.sort = "desc") => list[1] = last.pk
               /\ (last'.sort = "asc" /\ last'.max = NoMax) => list[Len(list)] = last.pk
               /\ (last'.sort = "asc" /\ last'.max # NoMax /\ size > last'.max) =>
                      last.pk \notin SeqRange(list)
      ]_vars

Adds(o) == o.op \in {"insertRecord", "addInQueue"}

\* C24: a successful insertRecord or addInQueue adds exactly one record to the
\* collection, a successful deleteRecord or deleteObjectFromQueue removes the
\* record of its key if one is stored and nothing else, a call that fails
\* changes nothing, and the count that queueSize (the facade's count task)
\* answers on an existing collection is the number of records stored in it.
C24_CountIsTheNumberOfStoredRecords ==
    [][/\ (Adds(last') /\ last'.done /\ last'.ok) =>
              /\ last'.pk \notin KeysIn(last'.name)
              /\ rows'[last'.name] = rows[last'.name] \cup RowsWithPk(rows'[last'.name], last'.pk)
              /\ Cardinality(rows'[last'.name]) = Cardinality(rows[last'.name]) + 1
       /\ (DeletesFromQueue(last') /\ last'.ok) =>
              rows'[last'.name] = rows[last'.name] \ RowsWithPk(rows[last'.name], last'.pk)
       /\ ((Adds(last') \/ DeletesFromQueue(last')) /\ ~last'.ok) => rows' = rows
       /\ (last'.op = "queueSize" /\ last'.name \in existing) =>
              /\ last'.ok
              /\ last'.count = Cardinality(rows[last'.name])
              /\ rows' = rows
      ]_vars

\* The size of a queue that holds two entries has been asked for.
C24_Witness ==
    /\ last.op = "queueSize"
    /\ last.ok
    /\ last.count = 2
    /\ Cardinality(rows[last.name]) = 2

-----------------------------------------------------------------------------
(* ------------------- claims about key-value entries -------------------- *)

\* C25: an addInQueue on a queue whose table does not exist creates the table
\* and does not fail, and the first addInQueue on a queue succeeds; a writeKey
\* of a value that JSON can carry creates the key-value table when it does not
\* exist, and succeeds.
C25_FirstWriteCreatesItsStorage ==
    [][/\ (last'.op = "addInQueue" /\ last'.name \notin existing) =>
              (last'.ok /\ last'.name \in existing')
       /\ (last'.op = "addInQueue" /\ last'.done /\ rows[last'.name] = {}) => last'.ok
       /\ (last'.op = "writeKey" /\ ~JsonThrows(valueObject(last'.arg))) =>
              (last'.ok /\ keyValueTable')
      ]_vars

KeyValueRows == rows[READ_WRITE_KEY_TABLE]

\* The envelope the claim names for a string, a byte buffer and an object.
NamedEnvelope(value) ==
    CASE value.t = "string" -> [type |-> "string", value |-> value]
      [] value.t = "buffer" -> [type |-> "buffer", value |-> StringValue(BufferToString(value))]
      [] value.t = "object" -> [type |-> "object", value |-> StringValue(ObjectToJson(value))]

\* C26: a writeKey(k, v) of a string, a buffer or an object succeeds whether or
\* not k is already written, and leaves exactly one entry under k, holding the
\* envelope of v, and every other key's entry as it was; a readKey(k) of a
\* written key returns the envelope stored under k.
C26_ReadKeyReturnsTheLastWrittenEnvelope ==
    [][/\ (last'.op = "writeKey" /\ last'.arg.t \in {"string", "buffer", "object"}) =>
              /\ last'.ok
              /\ \E r \in rows'[READ_WRITE_KEY_TABLE] :
                    /\ RowsWithPk(rows'[READ_WRITE_KEY_TABLE], last'.pk) = {r}
                    /\ r.data = NamedEnvelope(last'.arg)
                    /\ last'.record = r.data
              /\ \A k \in PKs \ {last'.pk} :
                    RowsWithPk(rows'[READ_WRITE_KEY_TABLE], k) = RowsWithPk(KeyValueRows, k)
       /\ (last'.op = "readKey" /\ RowsWithPk(KeyValueRows, last'.pk) # {}) =>
              /\ last'.ok
              /\ last'.found
              /\ \A r \in RowsWithPk(KeyValueRows, last'.pk) : last'.record = r.data
      ]_vars

\* A key written twice, last with a buffer, has been read.
C26_Witness ==
    /\ last.op = "readKey"
    /\ last.found
    /\ last.record = [type |-> "buffer", value |-> StringValue("test")]
    /\ \E r \in KeyValueRows : r.pk = last.pk /\ r.ts > 1

\* C27: a readKey of a key under which nothing is written succeeds with null,
\* also on a database on which no writeKey has run.
C27_ReadOfUnwrittenKeyIsNull ==
    (last.op = "readKey" /\ RowsWithPk(KeyValueRows, last.pk) = {}) =>
        (last.ok /\ ~last.found /\ last.record = NoEnvelope)

TypeTags == {"string", "number", "boolean", "object", "buffer", "other"}

\* C28: every envelope stored in the key-value table, and every envelope that
\* writeKey or readKey returns, carries one of the six type tags.
C28_TypeTagIsOneOfSix ==
    /\ \A r \in KeyValueRows : r.data.type \in TypeTags
    /\ (last.op \in {"writeKey", "readKey"} /\ last.found) => last.record.type \in TypeTags

-----------------------------------------------------------------------------
(* C29 *)

\* the members the claim names for the descriptor of a failure
PlainDescriptor == {"message", "code", "constraint", "detail"}

TimesAnswered(w, c) == Cardinality({i \in DOMAIN answered[w] : answered[w][i] = c})

\* C29: every error raised while a context handles a task, one surfacing
\* outside the awaited call included, gives that task exactly one failure
\* result with a plain descriptor (message, vendor code, constraint, detail):
\* no context's thread is ended by an uncaught exception, no context posts a
\* response that belongs to no task or a second response for a task, and every
\* failure posted carries the descriptor's members.
C29_EveryErrorIsOneFailureResult ==
    \A w \in Workers :
        /\ context[w] # "crashed"
        /\ \A i \in DOMAIN answered[w] : answered[w][i] \in Calls
        /\ \A c \in Calls : TimesAnswered(w, c) <= 1
        /\ \A i \in DOMAIN outbox[w] :
              ~outbox[w][i].success => PlainDescriptor \subseteq outbox[w][i].descriptor

-----------------------------------------------------------------------------
(* C30 *)

InSeq(c, s) == \E i \in DOMAIN s : s[i] = c

\* a call that waits for a task no context will ever run or answer
Forsaken(c) ==
    /\ callState[c] = "waiting"
    /\ \/ pc[c] = "terminated"
       \/ /\ pc[c] = "none"
          /\ ~InSeq(c, taskQueue)
          /\ \A w \in Workers : ~InSeq(c, inbox[w])

\* once close() was called, a call is not taken as a task
AcceptsNoNewTask ==
    closeCalled # 0 =>
        \A c \in Calls : callState[c] = "idle" => callState'[c] \in {"idle", "rejected"}

\* the tasks in flight when the contexts are torn down were finished or abandoned
InFlightFinishedOrAbandoned == \A c \in Calls : ~Forsaken(c)

\* a context that is torn down has had each of its connections ended
ConnectionClosedBeforeTeardown ==
    \A w \in Workers : context[w] = "terminated" => ended[w] = connections[w]

\* C30: once close() has been called the adapter takes no new task, the tasks in
\* flight are finished or abandoned (no call is left waiting for a task that a
\* torn-down context dropped), and a context is torn down only after its
\* connection was closed.
C30_CloseStopsFinishesAndClosesConnections ==
    [][ /\ AcceptsNoNewTask
        /\ InFlightFinishedOrAbandoned'
        /\ ConnectionClosedBeforeTeardown' ]_vars

-----------------------------------------------------------------------------
(* C31 *)

TornDown(w) == context[w] = "terminated"

\* C31: when close() met a failure while draining, closing the connection of or
\* tearing down one context, every other context has had its connection closed
\* and is terminated: at most one context is left out.
C31_OneFailureDoesNotBlockTheOthers ==
    closeCalled = -2 =>
        \E f \in Workers :
            \A w \in Workers \ {f} : TornDown(w) /\ ended[w] = connections[w]

-----------------------------------------------------------------------------
(* C32 *)

\* The context's createConnection failed for a task and it holds no connection.
\* (The worker of sqlAdapter.js never resets `pool`, so a finished task in a
\* context without a connection is one whose createConnection threw.)
ConnectionFailed(w) ==
    /\ pool[w] = 0
    /\ \E c \in Calls : handledBy[c] = w /\ pc[c] = "done"

\* the task whose createConnection threw was answered with a failure
FailedTaskGotFailure(w) ==
    \A c \in Calls :
        (handledBy[c] = w /\ pc[c] = "done") =>
            /\ InSeq(c, answered[w])
            /\ callState[c] \in {"waiting", "rejected"}

\* C32: when a context's connection fails the task gets a failure result and
\* the context is unusable from then on: it takes and executes no further task
\* (the model has no respawn of a context).
C32_FailedContextServesNoFurtherTask ==
    [][ \A w \in Workers :
            ConnectionFailed(w) =>
                /\ FailedTaskGotFailure(w)
                /\ received'[w] = received[w] ]_vars

-----------------------------------------------------------------------------
(* C33, C34 *)

\* what the task of the call ended with
TaskOutcome(c) == IF callState[c] = "resolved" THEN "result" ELSE "error"

\* what the caller was handed: the first invocation of its callback, or the
\* value its await produced
Delivered(c) ==
    IF delivery[c].form = "callback" THEN delivery[c].invocations[1] ELSE delivery[c].awaited

\* C33: a Facade operation called with a callback and the same operation
\* awaited deliver the same thing, the result or the error its task ended with.
C33_BothFormsDeliverTheTaskOutcome ==
    \A c \in Calls : delivery[c] # NoDelivery => Delivered(c) = TaskOutcome(c)

\* C34: a Facade call invokes its completion callback exactly once, also when
\* the callback throws while it handles the result.
C34_CallbackIsInvokedOnce ==
    \A c \in Calls : delivery[c].form = "callback" => Len(delivery[c].invocations) = 1

-----------------------------------------------------------------------------
(* C35 *)

\* a task name that no case of the handler's switch matches
UnknownTaskNames == {name \in TaskNames : ~KnownTask(name) /\ name # "createCollection"}

\* the step in which the handler runs the switch for call c on an unknown name
AnswersUnknownTask(c) == \E name \in UnknownTaskNames : Execute(c, name)

\* the response the context posted last
LastPosted(w) == outbox'[w][Len(outbox'[w])]

\* C35: a task with an unknown operation tag runs no query of a collection,
\* record, queue or key-value operation and leaves the context as it was, able
\* to serve later tasks; the context answers it with a failure, and that
\* failure is for the caller: the call is still waiting for its task's
\* response when the context posts it.
C35_UnknownTaskFailsAndContextGoesOn ==
    [][ \A c \in Calls :
            AnswersUnknownTask(c) =>
                /\ LastPosted(handledBy[c]) = Response(c, FALSE)
                /\ queryLog' = queryLog
                /\ UNCHANGED <<collectionsTable, keyValueTable, pool, context, storeVars>>
                /\ context[handledBy[c]] = "running"
                /\ callState[c] = "waiting" ]_vars

-----------------------------------------------------------------------------
(* C36 *)

\* C36: no createCollection, removeCollection or record operation on a name
\* that passes identifier validation drops or alters a reserved table: the
\* registry table and the key-value table, once they exist, go on existing,
\* and the rows of the key-value table change only by writeKey.
C36_ReservedTablesAreOutOfReach ==
    [][ /\ collectionsTable => collectionsTable'
        /\ keyValueTable => keyValueTable'
        /\ rows'[READ_WRITE_KEY_TABLE] # rows[READ_WRITE_KEY_TABLE] =>
              last'.op = "writeKey" ]_vars

C36_ValidationPasses == IsSafeIdentifier(READ_WRITE_KEY_TABLE) /\ ~IsSafeIdentifier(<<"t", ".", "t">>)

-----------------------------------------------------------------------------
(* C37 *)

\* the activation of the caller has ended: by a return or by a throw
TxEnded(cl) == txn[cl].method # "" /\ txn[cl].at = "idle"

\* C37: every client that executeQuery, executeTransaction or initializeSchema
\* acquires is released exactly once on every path: never more releases than
\* one, none without an acquired client, and when the method has ended, after a
\* commit or after the failure of BEGIN, of a statement, of COMMIT or of the
\* ROLLBACK itself, the client it acquired has been released.
C37_EveryClientIsReleasedOnce ==
    \A cl \in Clients :
        /\ txn[cl].acquired <= 1
        /\ txn[cl].released <= txn[cl].acquired
        /\ TxEnded(cl) => txn[cl].released = txn[cl].acquired
        /\ txn[cl].at \in {"begin", "statement", "commit", "rollback", "finally"} =>
              txn[cl].acquired = 1 /\ txn[cl].released = 0

\* a transaction has ended after its ROLLBACK failed, and another after its commit
C37_Witness ==
    \E a, b \in Clients :
        /\ TxEnded(a) /\ txn[a].failure = "rollback" /\ txn[a].released = 1
        /\ TxEnded(b) /\ txn[b].method = "executeTransaction" /\ txn[b].failure = "none"
        /\ txn[b].released = 1

-----------------------------------------------------------------------------
(* C38 *)

\* a row is stored under the key in the collection
Stored(n, pk) == \E r \in rows[n] : r.pk = pk

\* C38: an updateRecord that succeeds on a primary key under which the
\* collection stores nothing (with a document without the fallback-to-insert
\* flag, as all documents of the runs are) creates no record, leaves the
\* collection unchanged, and answers null: its result reports no written record.
C38_UpdateOfAbsentKeyWritesAndReportsNothing ==
    [][ (/\ last'.op = "updateRecord"
         /\ last'.ok
         /\ ~Stored(last'.name, last'.pk))
        => /\ rows' = rows
           /\ ~last'.found ]_vars

\* its part about the stored records alone
C38_UpdateOfAbsentKeyWritesNothing ==
    [][ (/\ last'.op = "updateRecord"
         /\ last'.ok
         /\ ~Stored(last'.name, last'.pk))
        => rows' = rows ]_vars

-----------------------------------------------------------------------------
(* C39 *)

\* the call of the registry has ended
RegistryCallEnded(cl) == registryCall[cl].method # "" /\ registryCall[cl].at = "idle"

-----------------------------------------------------------------------------
(* C40 *)

\* the operations that read: count is the task behind queueSize, getOneRecord
\* and getAllRecords are selections as filter is
ReadOps == {"getRecord", "filter", "queueSize", "listQueue", "getObjectFromQueue"}

\* C40: a read (listQueue, queueSize, filter, getRecord, getObjectFromQueue),
\* whether it succeeds or fails and whether or not the named collection
\* exists, leaves the set of storage tables, the registry and all stored
\* records unchanged.
C40_ReadsCreateNoStorage ==
    [][ last'.op \in ReadOps =>
            /\ existing' = existing
            /\ rows' = rows
            /\ registry' = registry
            /\ UNCHANGED <<collectionsTable, keyValueTable>> ]_vars

\* the same of the facade's worker tasks and of PostgreSQLDb alone
C40_ReadsOfTasksAndPostgreSQLDbCreateNoStorage ==
    [][ (last'.op \in ReadOps /\ adapter # "sqlWorker") =>
            /\ existing' = existing
            /\ rows' = rows
            /\ registry' = registry
            /\ UNCHANGED <<collectionsTable, keyValueTable>> ]_vars

=============================================================================
